---- MODULE Spec2Model ----
(***************************************************************************)
(* The authenticated upstream client of antigravity-proxy                  *)
(* (internal/antigravity/client.go): endpoint failover, the refresh and    *)
(* retry on 401, and the goroutine that forwards the lines of a streaming  *)
(* response to the caller's channel.                                       *)
(***************************************************************************)
EXTENDS Integers, Sequences, FiniteSets, TLC

\* ------------------------------------------------------------------ bounds
\* Number of calls in flight at the same time (SpecConc).
NumCalls == 2
\* Access tokens are 1..MaxToken; BlankToken is the empty string.
MaxToken == 2
\* Largest number of bytes an upstream streaming body carries.
MaxBody == 3
\* Largest number of bytes the scanner buffers for one line, its LF included
\* (the code: scanner.Buffer(..., 1024*1024)). Smaller than MaxBody, so that
\* a body can hold a line that does not fit.
MaxScanTokenSize == 2
\* Capacity of the caller's output channel.
ChanCap == 1
\* Largest number of parts (and content starts) in the contents of a request.
MaxParts == 4
\* Largest number of function declarations in a tool.
MaxDecls == 2
\* Largest number of parts in a caller's system instruction.
MaxSystemParts == 2
\* Number of requests prepared one after the other (SpecSession).
MaxRequests == 2
\* Largest number of messages in a chat completion request.
MaxMessages == 4
\* Largest number of sub-schemas in an anyOf or oneOf list.
MaxBranches == 2
\* Largest number of entries in a required or enum list.
MaxEntries == 2
\* Largest number of members written in the payload of an SSE line.
MaxMembers == 2
\* Largest number of polls of the onboarding loop.
MaxPolls == 2

\* --------------------------------------------------------------- constants
BlankToken == 0
StatusOK == 200
StatusUnauthorized == 401
\* Endpoints, in failover order.
Endpoints == <<"daily", "prod">>
NumEndpoints == Len(Endpoints)

Calls == 1..NumCalls
Tokens == 0..MaxToken
\* 0 stands for a transport failure of httpClient.Do; 500 for any status
\* other than 200 and 401.
TransportFailure == 0
Statuses == {StatusOK, StatusUnauthorized, 500}
Kinds == {"generateContent", "loadCodeAssist", "fetchAvailableModels",
          "streamGenerateContent"}
UnaryKinds == Kinds \ {"streamGenerateContent"}

\* The calls that hand the caller's context to doRequest; the others pass
\* context.Background().
CtxBound(k) == k \in {"streamGenerateContent", "fetchAvailableModels"}

\* ------------------------------------------------------------------ errors
Err(type, status, endpoint) ==
    [type |-> type, status |-> status, endpoint |-> endpoint]
NoErr == Err("nil", 0, "")
E(type) == Err(type, 0, "")

\* What doRequest returns: an error, or a response with its status.
RetErr(e) == [err |-> e, status |-> 0]
RetResp(s) == [err |-> NoErr, status |-> s]
NoRet == RetResp(0)

\* One observed step of a call: ev is "creds" (GetCredentials returned; v is
\* the token, -1 an error), "req" (httpClient.Do called with bearer token v),
\* "resp" (Do returned; v is the status or TransportFailure), "refresh"
\* (RefreshToken called), "refreshed" (RefreshToken returned; v 1 ok, 0 error).
Ev(ev, e, v) == [ev |-> ev, ep |-> e, v |-> v]

VARIABLES
    cred,       \* the access token the CredentialsProvider holds
    kind,       \* per call: the client method
    ctxDone,    \* per call: the inbound request context is cancelled
    pc,         \* per call: position in doRequest / the endpoint loop
    ep,         \* per call: index into Endpoints of the current iteration
    tok,        \* per call: the token doRequest holds
    ret,        \* per call: the value doRequest returned
    lastErr,    \* per call: lastErr of the endpoint loop
    result,     \* per call: what the method returned
    trace,      \* per call: the observed steps (history)
    recorded,   \* per call: the errors assigned to lastErr, in order (history)
    body,       \* streaming: bytes the scanner can obtain from resp.Body
    bodyEnd,    \* streaming: "open", "eof" or "error"
    scanPos,    \* streaming: first byte of body the scanner has not consumed
    spc,        \* streaming: position of the goroutine
    line,       \* streaming: scanner.Text() of the last Scan
    out,        \* streaming: contents of the caller's channel
    closed,     \* streaming: the channel is closed
    bodyClosed, \* streaming: resp.Body is closed
    delivered,  \* streaming: lines the consumer received (history)
    consumerStopped, \* streaming: the consumer no longer receives
    request,    \* preparation: the GenerateContentRequest being prepared
    prepLog,    \* preparation: the request after each statement (history)
    uuidCount,  \* number of uuid.NewString() results handed out so far
    messages,   \* translation: the OpenAI messages to convert
    translated, \* translation: what convertMessagesToGeminiContents returned
    schema,     \* schema conversion: the caller's JSON schema map
    converted,  \* schema conversion: the call of ConvertSchema, once made
    sse,        \* SSE: a line and the results of transforming it (history)
    disc,       \* project discovery: the state of a call of Discover
    server      \* server: a call of modelsHandler or of normalizeModelName

callVars == <<kind, ctxDone, pc, ep, tok, ret, lastErr, result, trace, recorded>>
streamVars == <<body, bodyEnd, scanPos, spc, line, out, closed, bodyClosed,
                delivered, consumerStopped>>
auxVars == <<schema, converted, sse, disc, server>>
convVars == <<request, prepLog, uuidCount, messages, translated, auxVars>>
vars == <<cred, callVars, streamVars, convVars>>

Pending == [state |-> "pending", err |-> NoErr]
Returned(e) == [state |-> IF e = NoErr THEN "ok" ELSE "error", err |-> e]

StreamIdle ==
    /\ body = <<>>
    /\ bodyEnd = "open"
    /\ scanPos = 1
    /\ spc = "none"
    /\ line = <<>>
    /\ out = <<>>
    /\ closed = FALSE
    /\ bodyClosed = FALSE
    /\ delivered = <<>>
    /\ consumerStopped = FALSE

\* Discover has not been called.
DiscIdle ==
    [pc |-> "none", env |-> "", load |-> <<>>, ret |-> <<>>, tierID |-> "",
     token |-> 0, dep |-> 1, lastErr |-> "", lro |-> <<>>, polls |-> 0,
     calls |-> 0, trace |-> <<>>, sent |-> <<>>]

\* No request is being served.
ServerIdle ==
    [pc |-> "none", method |-> "", path |-> <<>>, fetched |-> <<>>,
     resp |-> <<>>, given |-> <<>>, sent |-> <<>>]

\* No schema is being converted, no SSE line transformed, no project
\* discovered, no request served.
AuxIdle ==
    /\ schema = <<>>
    /\ converted = <<>>
    /\ sse = <<>>
    /\ disc = DiscIdle
    /\ server = ServerIdle

\* No request is being prepared and no message list is being translated.
ConvIdle ==
    /\ request = <<>>
    /\ prepLog = <<>>
    /\ uuidCount = 0
    /\ messages = <<>>
    /\ translated = <<>>
    /\ AuxIdle

\* One call of a client method, about to enter its endpoint loop; the other
\* call slots are unused.
Init ==
    /\ cred \in Tokens
    /\ \E k \in Kinds : kind = [c \in Calls |-> IF c = 1 THEN k ELSE "none"]
    /\ ctxDone = [c \in Calls |-> FALSE]
    /\ pc = [c \in Calls |-> IF c = 1 THEN "doRequest" ELSE "off"]
    /\ ep = [c \in Calls |-> 1]
    /\ tok = [c \in Calls |-> BlankToken]
    /\ ret = [c \in Calls |-> NoRet]
    /\ lastErr = [c \in Calls |-> NoErr]
    /\ result = [c \in Calls |-> Pending]
    /\ trace = [c \in Calls |-> <<>>]
    /\ recorded = [c \in Calls |-> <<>>]
    /\ StreamIdle
    /\ ConvIdle

\* ------------------------------------------------------------- doRequest
\* doRequest returns r to its caller.
Return(c, r) ==
    /\ ret' = [ret EXCEPT ![c] = r]
    /\ pc' = [pc EXCEPT ![c] = "returned"]

\* doRequestWithToken up to httpClient.Do: the request carries the token.
doRequestWithToken(c, token, evs, await) ==
    /\ tok' = [tok EXCEPT ![c] = token]
    /\ trace' = [trace EXCEPT ![c] = @ \o evs \o <<Ev("req", ep[c], token)>>]
    /\ pc' = [pc EXCEPT ![c] = await]
    /\ ret' = ret

\* doRequest, from its entry to the first httpClient.Do.
DoRequest(c) ==
    /\ pc[c] = "doRequest"
    /\ \E ok \in BOOLEAN :
         IF ~ok
         THEN /\ Return(c, RetErr(E("getCredentials")))
              /\ trace' = [trace EXCEPT ![c] = Append(@, Ev("creds", ep[c], -1))]
              /\ tok' = tok
         ELSE IF cred = BlankToken
         THEN /\ Return(c, RetErr(E("emptyToken")))
              /\ trace' = [trace EXCEPT ![c] = Append(@, Ev("creds", ep[c], cred))]
              /\ tok' = [tok EXCEPT ![c] = cred]
         ELSE doRequestWithToken(c, cred, <<Ev("creds", ep[c], cred)>>, "await")
    /\ UNCHANGED <<convVars, cred, kind, ctxDone, ep, lastErr, result, recorded, streamVars>>

\* Variant: the retry reuses the token read before the refresh.
RetryTokenStale(held, reloaded) == held

\* The token of the retry: the one of the credentials read after the refresh.
RetryToken(held, reloaded) == reloaded

\* Variant: a 401 to the retry leads to a refresh as well.
ShouldRefreshEvery(status, n) == status = StatusUnauthorized

\* Variant: no refresh while another call is refreshing (coalescing).
ShouldRefreshCoalesced(status, n) ==
    /\ n = 1
    /\ status = StatusUnauthorized
    /\ \A d \in Calls : pc[d] # "refreshing"

\* Whether the response to request number n of doRequest leads to a refresh.
ShouldRefresh(status, n) == n = 1 /\ status = StatusUnauthorized

\* What httpClient.Do can return for call c: a cancelled context that the
\* request is bound to ends the request with an error.
Responses(c) ==
    IF CtxBound(kind[c]) /\ ctxDone[c]
    THEN {TransportFailure}
    ELSE Statuses \cup {TransportFailure}

\* httpClient.Do returns, for the first request or for the retry.
Respond(c) ==
    /\ pc[c] \in {"await", "retryAwait"}
    /\ \E r \in Responses(c) :
         LET n == IF pc[c] = "await" THEN 1 ELSE 2
             seen == Append(trace[c], Ev("resp", ep[c], r))
         IN  IF r = TransportFailure
             THEN /\ Return(c, RetErr(E("execution")))
                  /\ trace' = [trace EXCEPT ![c] = seen]
             ELSE IF ShouldRefresh(r, n)
             THEN /\ pc' = [pc EXCEPT ![c] = "refreshing"]
                  /\ trace' = [trace EXCEPT ![c] =
                                  Append(seen, Ev("refresh", ep[c], 0))]
                  /\ ret' = ret
             ELSE /\ Return(c, RetResp(r))
                  /\ trace' = [trace EXCEPT ![c] = seen]
    /\ UNCHANGED <<convVars, cred, kind, ctxDone, ep, tok, lastErr, result, recorded,
                   streamVars>>

\* provider.RefreshToken returns: an error, or nil with the provider holding
\* the token the refresh stored.
RefreshReturn(c) ==
    /\ pc[c] = "refreshing"
    /\ \/ /\ Return(c, RetErr(E("refresh")))
          /\ trace' = [trace EXCEPT ![c] = Append(@, Ev("refreshed", ep[c], 0))]
          /\ cred' = cred
       \/ /\ cred' \in Tokens
          /\ pc' = [pc EXCEPT ![c] = "reload"]
          /\ trace' = [trace EXCEPT ![c] = Append(@, Ev("refreshed", ep[c], 1))]
          /\ ret' = ret
    /\ UNCHANGED <<convVars, kind, ctxDone, ep, tok, lastErr, result, recorded, streamVars>>

\* The credentials are read again and the request is repeated.
Reload(c) ==
    /\ pc[c] = "reload"
    /\ \E ok \in BOOLEAN :
         IF ~ok
         THEN /\ Return(c, RetErr(E("reload")))
              /\ trace' = [trace EXCEPT ![c] = Append(@, Ev("creds", ep[c], -1))]
              /\ tok' = tok
         ELSE doRequestWithToken(c, RetryToken(tok[c], cred),
                                 <<Ev("creds", ep[c], cred)>>, "retryAwait")
    /\ UNCHANGED <<convVars, cred, kind, ctxDone, ep, lastErr, result, recorded, streamVars>>


\* ------------------------------------------------------ the endpoint loop
\* The error recorded for a non-200 status: GenerateContent and
\* StreamGenerateContent build an UpstreamError naming the endpoint, the other
\* two a formatted error carrying the status.
StatusError(k, status, endpoint) ==
    IF k \in {"generateContent", "streamGenerateContent"}
    THEN Err("UpstreamError", status, endpoint)
    ELSE Err("status", status, "")

\* Variant: a 200 whose body does not decode goes on to the next endpoint.
HandleDecodeContinue(k, endpoint, r, readOK, decodeOK) ==
    IF r.err # NoErr
    THEN [continue |-> TRUE, err |-> r.err]
    ELSE IF k = "streamGenerateContent"
    THEN IF r.status # StatusOK
         THEN IF ~readOK
              THEN [continue |-> TRUE, err |-> Err("streamRead", r.status, "")]
              ELSE [continue |-> TRUE, err |-> StatusError(k, r.status, endpoint)]
         ELSE [continue |-> FALSE, err |-> NoErr]
    ELSE IF ~readOK
         THEN [continue |-> TRUE, err |-> E("readBody")]
         ELSE IF r.status # StatusOK
         THEN [continue |-> TRUE, err |-> StatusError(k, r.status, endpoint)]
         ELSE IF ~decodeOK
         THEN [continue |-> TRUE, err |-> E("unmarshal")]
         ELSE [continue |-> FALSE, err |-> NoErr]

\* One iteration of the endpoint loop after doRequest returned r. readOK says
\* whether the body could be read, decodeOK whether it decodes as JSON.
\* continue: the error is assigned to lastErr and the loop goes on; otherwise
\* the method returns err (NoErr: success).
Handle(k, endpoint, r, readOK, decodeOK) ==
    IF r.err # NoErr
    THEN [continue |-> TRUE, err |-> r.err]
    ELSE IF k = "streamGenerateContent"
    THEN IF r.status # StatusOK
         THEN IF ~readOK
              THEN [continue |-> TRUE, err |-> Err("streamRead", r.status, "")]
              ELSE [continue |-> TRUE, err |-> StatusError(k, r.status, endpoint)]
         ELSE [continue |-> FALSE, err |-> NoErr]
    ELSE IF ~readOK
         THEN [continue |-> TRUE, err |-> E("readBody")]
         ELSE IF r.status # StatusOK
         THEN [continue |-> TRUE, err |-> StatusError(k, r.status, endpoint)]
         ELSE IF ~decodeOK
         THEN [continue |-> FALSE, err |-> E("unmarshal")]
         ELSE [continue |-> FALSE, err |-> NoErr]

\* Variant: only the first error is kept.
RecordFirst(last, err) == IF last = NoErr THEN err ELSE last

\* lastErr = err
Record(last, err) == err

\* After the loop: lastErr, or the no-endpoints error when nothing was recorded.
FinalError(last) == IF last # NoErr THEN last ELSE E("noEndpoints")

startsProducerOnEveryStep(k, o) == k = "streamGenerateContent"

\* StreamGenerateContent starts the goroutine where the loop is left without
\* an error, k being the method and o what Handle made of the response.
startsProducer(k, o) ==
    k = "streamGenerateContent" /\ ~o.continue /\ o.err = NoErr

\* The caller of doRequest takes its result: next endpoint, or return. A
\* successful StreamGenerateContent starts the goroutine and returns nil.
LoopStep(c) ==
    /\ pc[c] = "returned"
    /\ \E readOK \in BOOLEAN, decodeOK \in BOOLEAN :
         LET o == Handle(kind[c], Endpoints[ep[c]], ret[c], readOK, decodeOK)
         IN  /\ IF o.continue
                THEN /\ lastErr' = [lastErr EXCEPT ![c] = Record(@, o.err)]
                     /\ recorded' = [recorded EXCEPT ![c] = Append(@, o.err)]
                     /\ IF ep[c] < NumEndpoints
                        THEN /\ ep' = [ep EXCEPT ![c] = @ + 1]
                             /\ pc' = [pc EXCEPT ![c] = "doRequest"]
                             /\ result' = result
                        ELSE /\ ep' = ep
                             /\ pc' = [pc EXCEPT ![c] = "done"]
                             /\ result' = [result EXCEPT ![c] =
                                              Returned(FinalError(lastErr'[c]))]
                ELSE /\ pc' = [pc EXCEPT ![c] = "done"]
                     /\ result' = [result EXCEPT ![c] = Returned(o.err)]
                     /\ UNCHANGED <<lastErr, recorded, ep>>
             /\ spc' = IF startsProducer(kind[c], o) THEN "scan" ELSE spc
    /\ UNCHANGED <<convVars, cred, kind, ctxDone, tok, ret, trace, body, bodyEnd, scanPos,
                   line, out, closed, bodyClosed, delivered, consumerStopped>>

Streaming == spc \in {"scan", "send", "closing", "closingBody"}

\* The inbound request's context is cancelled. A body that is being streamed
\* then ends with an error; what of it the scanner had not yet buffered is lost.
Cancel(c) ==
    /\ pc[c] \notin {"off", "done"} \/ (kind[c] = "streamGenerateContent" /\ Streaming)
    /\ ~ctxDone[c]
    /\ ctxDone' = [ctxDone EXCEPT ![c] = TRUE]
    /\ IF kind[c] = "streamGenerateContent" /\ Streaming /\ bodyEnd = "open"
       THEN /\ bodyEnd' = "error"
            /\ \E p \in (scanPos - 1)..Len(body) : body' = SubSeq(body, 1, p)
       ELSE UNCHANGED <<body, bodyEnd>>
    /\ UNCHANGED <<convVars, cred, kind, pc, ep, tok, ret, lastErr, result, trace, recorded,
                   scanPos, spc, line, out, closed, bodyClosed, delivered,
                   consumerStopped>>

\* The provider's credentials change under a call in flight: another request
\* refreshed them, or the admin API stored new ones.
ProviderUpdate ==
    /\ \/ \E c \in Calls : pc[c] \notin {"off", "done"}
       \/ disc.pc \notin {"none", "done"}
    /\ cred' \in Tokens \ {cred}
    /\ UNCHANGED <<convVars, callVars, streamVars>>

Next ==
    \/ \E c \in Calls : DoRequest(c)
    \/ \E c \in Calls : Respond(c)
    \/ \E c \in Calls : RefreshReturn(c)
    \/ \E c \in Calls : Reload(c)
    \/ \E c \in Calls : LoopStep(c)
    \/ \E c \in Calls : Cancel(c)
    \/ ProviderUpdate

Spec == Init /\ [][Next]_vars

\* --------------------------------------------------- concurrent doRequest
\* NumCalls invocations of doRequest in flight on one provider, each on the
\* first endpoint, where every call starts.
InitConc ==
    /\ cred \in Tokens
    /\ kind = [c \in Calls |-> "generateContent"]
    /\ ctxDone = [c \in Calls |-> FALSE]
    /\ pc = [c \in Calls |-> "doRequest"]
    /\ ep = [c \in Calls |-> 1]
    /\ tok = [c \in Calls |-> BlankToken]
    /\ ret = [c \in Calls |-> NoRet]
    /\ lastErr = [c \in Calls |-> NoErr]
    /\ result = [c \in Calls |-> Pending]
    /\ trace = [c \in Calls |-> <<>>]
    /\ recorded = [c \in Calls |-> <<>>]
    /\ StreamIdle
    /\ ConvIdle

NextConc ==
    \/ \E c \in Calls : DoRequest(c)
    \/ \E c \in Calls : Respond(c)
    \/ \E c \in Calls : RefreshReturn(c)
    \/ \E c \in Calls : Reload(c)

SpecConc == InitConc /\ [][NextConc]_vars

\* ------------------------------------------------- the streaming goroutine
LF == "\n"
CR == "\r"
Chars == {"a", LF, CR}

\* Index of the first LF of data, 0 when it has none (bytes.IndexByte + 1).
IndexLF(data) ==
    IF \E i \in 1..Len(data) : data[i] = LF
    THEN CHOOSE i \in 1..Len(data) :
             data[i] = LF /\ \A j \in 1..(i - 1) : data[j] # LF
    ELSE 0

dropCR(data) ==
    IF Len(data) > 0 /\ data[Len(data)] = CR
    THEN SubSeq(data, 1, Len(data) - 1)
    ELSE data

\* bufio.ScanLines: has says whether a token is returned.
ScanLines(data, atEOF) ==
    IF atEOF /\ Len(data) = 0
    THEN [advance |-> 0, has |-> FALSE, token |-> <<>>]
    ELSE IF IndexLF(data) > 0
    THEN [advance |-> IndexLF(data), has |-> TRUE,
          token |-> dropCR(SubSeq(data, 1, IndexLF(data) - 1))]
    ELSE IF atEOF
    THEN [advance |-> Len(data), has |-> TRUE, token |-> dropCR(data)]
    ELSE [advance |-> 0, has |-> FALSE, token |-> <<>>]

\* The upstream sends one more byte of the body.
UpstreamWrite ==
    /\ Streaming
    /\ bodyEnd = "open"
    /\ Len(body) < MaxBody
    /\ \E ch \in Chars : body' = Append(body, ch)
    /\ UNCHANGED <<convVars, cred, callVars, bodyEnd, scanPos, spc, line, out, closed,
                   bodyClosed, delivered, consumerStopped>>

\* The body ends: the upstream closes it, or reading it fails.
UpstreamEnd ==
    /\ Streaming
    /\ bodyEnd = "open"
    /\ bodyEnd' \in {"eof", "error"}
    /\ UNCHANGED <<convVars, cred, callVars, body, scanPos, spc, line, out, closed,
                   bodyClosed, delivered, consumerStopped>>

\* scanner.Scan(): the next line, or the end of the loop. The scanner holds at
\* most MaxScanTokenSize unread bytes: a line whose LF is among them is the
\* next token; when they hold no LF and the buffer is full, Scan gives up
\* with bufio.ErrTooLong and the loop ends with the rest of the body unread.
\* Scan hands the buffer to the split function before it tests whether the
\* buffer is full: when the Read that filled the buffer also returned the end
\* of the body, the full buffer is the last line and is returned. Whether the
\* end came with that Read or with a later one is the reader's choice. With
\* room left in the buffer Scan waits while the body is open, and once the
\* body has ended returns what is left as the last line.
ProducerScan ==
    /\ spc = "scan"
    /\ LET data == SubSeq(body, scanPos, Len(body))
           buffered == SubSeq(data, 1, IF Len(data) < MaxScanTokenSize
                                       THEN Len(data) ELSE MaxScanTokenSize)
           tooLong == IndexLF(buffered) = 0 /\ Len(data) >= MaxScanTokenSize
           endWithLastRead == Len(data) = MaxScanTokenSize /\ bodyEnd # "open"
           s == ScanLines(buffered, bodyEnd # "open")
       IN  IF tooLong
           THEN \/ /\ spc' = "closing"
                   /\ UNCHANGED <<line, scanPos>>
                \/ /\ endWithLastRead
                   /\ line' = s.token
                   /\ scanPos' = scanPos + s.advance
                   /\ spc' = "send"
           ELSE IF s.has
           THEN /\ line' = s.token
                /\ scanPos' = scanPos + s.advance
                /\ spc' = "send"
           ELSE /\ bodyEnd # "open"
                /\ spc' = "closing"
                /\ UNCHANGED <<line, scanPos>>
    /\ UNCHANGED <<convVars, cred, callVars, body, bodyEnd, out, closed, bodyClosed,
                   delivered, consumerStopped>>

\* out <- scanner.Text(): waits while the channel is full.
ProducerSend ==
    /\ spc = "send"
    /\ Len(out) < ChanCap
    /\ out' = Append(out, line)
    /\ spc' = "scan"
    /\ UNCHANGED <<convVars, cred, callVars, body, bodyEnd, scanPos, line, closed,
                   bodyClosed, delivered, consumerStopped>>

\* The deferred calls of the goroutine run last first: close(out) is the
\* first of them.
ProducerClose ==
    /\ spc = "closing"
    /\ closed' = TRUE
    /\ spc' = "closingBody"
    /\ UNCHANGED <<convVars, cred, callVars, body, bodyEnd, scanPos, line, out,
                   bodyClosed, delivered, consumerStopped>>

\* resp.Body.Close(), the second deferred call; the goroutine ends.
ProducerBodyClose ==
    /\ spc = "closingBody"
    /\ bodyClosed' = TRUE
    /\ spc' = "done"
    /\ UNCHANGED <<convVars, cred, callVars, body, bodyEnd, scanPos, line, out,
                   closed, delivered, consumerStopped>>

\* The caller receives one line from the channel.
ConsumerReceive ==
    /\ ~consumerStopped
    /\ Len(out) > 0
    /\ delivered' = Append(delivered, Head(out))
    /\ out' = Tail(out)
    /\ UNCHANGED <<convVars, cred, callVars, body, bodyEnd, scanPos, spc, line, closed,
                   bodyClosed, consumerStopped>>

\* The caller stops receiving from the channel.
ConsumerStop ==
    /\ spc # "none"
    /\ ~consumerStopped
    /\ consumerStopped' = TRUE
    /\ UNCHANGED <<convVars, cred, callVars, body, bodyEnd, scanPos, spc, line, out,
                   closed, bodyClosed, delivered>>

\* StreamGenerateContent has just returned nil: the first endpoint answered
\* 200 and the goroutine is started.
InitStream ==
    /\ cred \in Tokens \ {BlankToken}
    /\ kind = [c \in Calls |-> IF c = 1 THEN "streamGenerateContent" ELSE "none"]
    /\ ctxDone = [c \in Calls |-> FALSE]
    /\ pc = [c \in Calls |-> IF c = 1 THEN "done" ELSE "off"]
    /\ ep = [c \in Calls |-> 1]
    /\ tok = [c \in Calls |-> IF c = 1 THEN cred ELSE BlankToken]
    /\ ret = [c \in Calls |-> IF c = 1 THEN RetResp(StatusOK) ELSE NoRet]
    /\ lastErr = [c \in Calls |-> NoErr]
    /\ result = [c \in Calls |-> IF c = 1 THEN Returned(NoErr) ELSE Pending]
    /\ trace = [c \in Calls |->
                  IF c = 1
                  THEN <<Ev("creds", 1, cred), Ev("req", 1, cred),
                         Ev("resp", 1, StatusOK)>>
                  ELSE <<>>]
    /\ recorded = [c \in Calls |-> <<>>]
    /\ body = <<>>
    /\ bodyEnd = "open"
    /\ scanPos = 1
    /\ spc = "scan"
    /\ line = <<>>
    /\ out = <<>>
    /\ closed = FALSE
    /\ bodyClosed = FALSE
    /\ delivered = <<>>
    /\ consumerStopped = FALSE
    /\ ConvIdle

NextStream ==
    \/ UpstreamWrite
    \/ UpstreamEnd
    \/ ProducerScan
    \/ ProducerSend
    \/ ProducerClose
    \/ ProducerBodyClose
    \/ ConsumerReceive
    \/ ConsumerStop
    \/ Cancel(1)

SpecStream == InitStream /\ [][NextStream]_vars

\* StreamGenerateContent from its call on, with the goroutine it starts and
\* a caller that keeps receiving from the channel.
InitStreamCall ==
    /\ Init
    /\ cred = 1
    /\ kind[1] = "streamGenerateContent"

NextStreamCall ==
    \/ DoRequest(1)
    \/ Respond(1)
    \/ RefreshReturn(1)
    \/ Reload(1)
    \/ LoopStep(1)
    \/ Cancel(1)
    \/ UpstreamWrite
    \/ UpstreamEnd
    \/ ProducerScan
    \/ ProducerSend
    \/ ProducerClose
    \/ ProducerBodyClose
    \/ ConsumerReceive

SpecStreamCall == InitStreamCall /\ [][NextStreamCall]_vars

\* The goroutine is scheduled, and a caller that has not stopped keeps
\* receiving.
FairStream ==
    /\ SpecStream
    /\ WF_vars(ProducerScan)
    /\ WF_vars(ProducerSend)
    /\ WF_vars(ProducerClose)
    /\ WF_vars(ProducerBodyClose)
    /\ WF_vars(ConsumerReceive)


\* ==================================================== request preparation
\* prepareAntigravityRequest rewrites a GenerateContentRequest in place before
\* it is sent upstream.

\* A nil pointer is the empty sequence; a non-nil pointer is the one-element
\* sequence of the value it points to.
Nil == <<>>
Ptr(v) == <<v>>
Deref(p) == p[1]

RequestUserAgent == "antigravity"
RequestTypeAgent == "agent"
SystemInstructionText == "You are Antigravity, a powerful agentic AI coding assistant designed by the Google Deepmind team working on Advanced Agentic Coding.You are pair programming with a USER to solve their coding task. The task may require creating a new codebase, modifying or debugging an existing codebase, or simply answering a question.**Absolute paths only****Proactiveness**"

\* strings.TrimSpace on the strings of the model: the whitespace-only strings,
\* one padded ID, and strings without surrounding whitespace.
TrimSpace(s) ==
    CASE s \in {" ", "  "} -> ""
      [] s = " 1" -> "1"
      [] OTHER -> s

\* strings.ToLower on the strings of the model.
ToLower(s) ==
    CASE s = "USER" -> "user"
      [] s = "User" -> "user"
      [] s = "MODEL" -> "model"
      [] s = "TOOL" -> "tool"
      [] s = "Gemini" -> "gemini"
      [] s = "-LOW" -> "-low"
      [] s = "-High" -> "-high"
      [] s = "C" -> "c"
      [] s = "E" -> "e"
      [] s = "G" -> "g"
      [] s = "I" -> "i"
      [] s = "M" -> "m"
      [] s = "N" -> "n"
      [] OTHER -> s

\* The n-th value uuid.NewString() returns: no two calls return the same
\* value, and no caller-supplied string of the model equals one.
UUID(n) == "uuid" \o ToString(n)

\* ContentPart, FunctionCall and FunctionResponse (the fields preparation
\* reads or writes).
ContentPart(text, sig, call, resp) ==
    [text |-> text, thoughtSignature |-> sig, functionCall |-> call,
     functionResponse |-> resp]
TextPart(text) == ContentPart(text, "", Nil, Nil)
FunctionCall(id, name) == [id |-> id, name |-> name]
FunctionResponse(id, name, output) ==
    [id |-> id, name |-> name, response |-> output]
CallPart(id, name) == ContentPart("", "", Ptr(FunctionCall(id, name)), Nil)
ToolResponsePart(id, name, output) ==
    ContentPart("", "", Nil, Ptr(FunctionResponse(id, name, output)))
ResponsePart(id, name) == ToolResponsePart(id, name, "")
Content(role, parts) == [role |-> role, parts |-> parts]

\* ------------------------------------------------------ sanitizeContents
isEmptyContentPartTextOnly(part) == part.text = ""

isEmptyContentPart(part) ==
    IF part.functionCall # Nil \/ part.functionResponse # Nil
    THEN FALSE
    ELSE part.text = ""

\* The inner loop of sanitizeContents: the parts appended to parts.
RECURSIVE keptParts(_)
keptParts(parts) ==
    IF parts = <<>> THEN <<>>
    ELSE (IF isEmptyContentPart(Head(parts)) THEN <<>> ELSE <<Head(parts)>>)
         \o keptParts(Tail(parts))

RECURSIVE sanitizeContents(_)
sanitizeContents(contents) ==
    IF contents = <<>> THEN <<>>
    ELSE LET content == Head(contents)
             parts == keptParts(content.parts)
         IN  (IF Len(content.parts) = 0 \/ Len(parts) = 0
              THEN <<>>
              ELSE <<[content EXCEPT !.parts = parts]>>)
             \o sanitizeContents(Tail(contents))

\* ------------------------------------------------------- deriveSessionID
\* strings.Join(parts, sep)
RECURSIVE Join(_, _)
Join(parts, sep) ==
    IF parts = <<>> THEN ""
    ELSE IF Len(parts) = 1 THEN parts[1]
    ELSE parts[1] \o sep \o Join(Tail(parts), sep)

\* hex.EncodeToString(sha256.Sum256(data))[:32]: a digest that is a function
\* of the data alone; the digests of different data differ.
Sha256Hex32(data) == "sha256/32:" \o data

\* The non-empty texts of a message's parts.
RECURSIVE nonEmptyTexts(_)
nonEmptyTexts(parts) ==
    IF parts = <<>> THEN <<>>
    ELSE (IF Head(parts).text # "" THEN <<Head(parts).text>> ELSE <<>>)
         \o nonEmptyTexts(Tail(parts))

IsUserRoleExact(role) == role = "user"

\* The role test of deriveSessionID.
IsUserRole(role) == ToLower(role) = "user"

\* deriveSessionID with n uuids handed out so far: the session id and the
\* number of uuids handed out afterwards.
RECURSIVE deriveSessionID(_, _)
deriveSessionID(contents, n) ==
    IF contents = <<>> THEN [id |-> UUID(n + 1), uuids |-> n + 1]
    ELSE LET msg == Head(contents)
             parts == nonEmptyTexts(msg.parts)
         IN  IF ~IsUserRole(msg.role) \/ Len(parts) = 0
             THEN deriveSessionID(Tail(contents), n)
             ELSE [id |-> Sha256Hex32(Join(parts, "\n")), uuids |-> n]

\* ------------------------------------------------- ensureFunctionCallIDs
\* The (contentIndex, partIndex) pairs in the order of the two nested loops.
RECURSIVE Positions(_, _)
Positions(contents, contentIndex) ==
    IF contentIndex > Len(contents) THEN <<>>
    ELSE [partIndex \in 1..Len(contents[contentIndex].parts) |->
            <<contentIndex, partIndex>>]
         \o Positions(contents, contentIndex + 1)

PartAt(contents, p) == contents[p[1]].parts[p[2]]

NeedsCallIDExact(id) == id = ""

\* The test that decides whether a functionCall gets a generated ID.
NeedsCallID(id) == TrimSpace(id) = ""

RECURSIVE callIDsFrom(_, _, _)
callIDsFrom(contents, pos, n) ==
    IF pos = <<>> THEN [contents |-> contents, uuids |-> n]
    ELSE LET p == Head(pos)
             part == PartAt(contents, p)
         IN  IF part.functionCall = Nil
             THEN callIDsFrom(contents, Tail(pos), n)
             ELSE IF NeedsCallID(Deref(part.functionCall).id)
             THEN callIDsFrom(
                    [contents EXCEPT ![p[1]].parts[p[2]].functionCall[1].id =
                                       "toolu_" \o UUID(n + 1)],
                    Tail(pos), n + 1)
             ELSE callIDsFrom(contents, Tail(pos), n)

\* ensureFunctionCallIDs with n uuids handed out so far.
ensureFunctionCallIDs(contents, n) ==
    callIDsFrom(contents, Positions(contents, 1), n)

\* --------------------------------------------- ensureFunctionResponseIDs
removeFirstMatch(values, target) ==
    IF target = "" THEN values
    ELSE IF \E i \in 1..Len(values) : values[i] = target
    THEN LET i == CHOOSE i \in 1..Len(values) :
                    /\ values[i] = target
                    /\ \A j \in 1..(i - 1) : values[j] # target
         IN  SubSeq(values, 1, i - 1) \o SubSeq(values, i + 1, Len(values))
    ELSE values

\* perName[name] of the Go map: a missing key reads as the empty slice.
Lookup(perName, name) ==
    IF name \in DOMAIN perName THEN perName[name] ELSE <<>>
Store(perName, name, ids) ==
    [k \in DOMAIN perName \cup {name} |->
        IF k = name THEN ids ELSE perName[k]]

\* The loop body of ensureFunctionResponseIDs from position Head(pos) on.
RECURSIVE responseIDsFrom(_, _, _, _)
responseIDsFrom(contents, pos, pending, perName) ==
    IF pos = <<>> THEN contents
    ELSE
      LET p == Head(pos)
          part == PartAt(contents, p)
          rest == Tail(pos)
      IN
      IF part.functionCall # Nil
      THEN LET id == TrimSpace(Deref(part.functionCall).id)
               name == TrimSpace(Deref(part.functionCall).name)
           IN  IF id = ""
               THEN responseIDsFrom(contents, rest, pending, perName)
               ELSE responseIDsFrom(
                      contents, rest, Append(pending, id),
                      IF name # ""
                      THEN Store(perName, name,
                                 Append(Lookup(perName, name), id))
                      ELSE perName)
      ELSE IF part.functionResponse = Nil
      THEN responseIDsFrom(contents, rest, pending, perName)
      ELSE
        LET resp == Deref(part.functionResponse)
            name == TrimSpace(resp.name)
        IN
        IF TrimSpace(resp.id) # ""
        THEN responseIDsFrom(
               contents, rest, removeFirstMatch(pending, resp.id),
               IF name # ""
               THEN Store(perName, name,
                          removeFirstMatch(Lookup(perName, name), resp.id))
               ELSE perName)
        ELSE
          LET ids == Lookup(perName, name)
              byName == name # "" /\ Len(ids) > 0
              assigned1 == IF byName THEN ids[1] ELSE ""
              perName1 == IF byName THEN Store(perName, name, Tail(ids))
                          ELSE perName
              pending1 == IF byName THEN removeFirstMatch(pending, assigned1)
                          ELSE pending
              global == assigned1 = "" /\ Len(pending1) > 0
              assigned == IF global THEN pending1[1] ELSE assigned1
              pending2 == IF global THEN Tail(pending1) ELSE pending1
              perName2 ==
                  IF global /\ name # ""
                  THEN Store(perName1, name,
                             removeFirstMatch(Lookup(perName1, name),
                                              assigned))
                  ELSE perName1
          IN  responseIDsFrom(
                IF assigned # ""
                THEN [contents EXCEPT
                        ![p[1]].parts[p[2]].functionResponse[1].id = assigned]
                ELSE contents,
                rest, pending2, perName2)

ensureFunctionResponseIDs(contents) ==
    responseIDsFrom(contents, Positions(contents, 1), <<>>,
                    [k \in {} |-> <<>>])

\* ------------------------------------- buildAntigravitySystemInstruction
\* The parts appended for the existing instruction: a new part for every
\* part of it that has text.
RECURSIVE textParts(_)
textParts(parts) ==
    IF parts = <<>> THEN <<>>
    ELSE (IF Head(parts).text # "" THEN <<TextPart(Head(parts).text)>>
          ELSE <<>>)
         \o textParts(Tail(parts))

IgnoreWrapped(text) == "Please ignore the following [ignore]" \o text \o "[/ignore]"

existingPartsAll(existing) ==
    IF existing # Nil THEN Deref(existing).parts ELSE <<>>

\* The parts taken over from the caller's system instruction.
existingParts(existing) ==
    IF existing # Nil THEN textParts(Deref(existing).parts) ELSE <<>>

buildAntigravitySystemInstruction(existing) ==
    Ptr([role |-> "user",
         parts |-> <<TextPart(SystemInstructionText),
                     TextPart(IgnoreWrapped(SystemInstructionText))>>
                   \o existingParts(existing)])

\* --------------------------------------------- applyGeminiThinkingPreset
\* A model name is the sequence of its fragments; the names of the model are
\* cut so that none of the substrings searched for straddles two fragments.
Contains(s, substr) == \E i \in DOMAIN s : s[i] = substr
ToLowerName(s) == [i \in DOMAIN s |-> ToLower(s[i])]

EmptyThinkingConfig ==
    [includeThoughts |-> FALSE, thinkingLevel |-> "", thinkingBudget |-> Nil]
EmptyGenerationConfig == [maxOutputTokens |-> 0, thinkingConfig |-> Nil]

\* The switch of applyGeminiThinkingPreset.
presetLevel(modelLower) ==
    IF Contains(modelLower, "-low") THEN "low"
    ELSE IF Contains(modelLower, "-high") THEN "high"
    ELSE ""

presetBudgetKept(budget) == budget

\* The thinkingBudget the preset leaves.
presetBudget(budget) == Nil

applyGeminiThinkingPreset(req) ==
    LET modelLower == ToLowerName(req.model)
        level == presetLevel(modelLower)
    IN  IF ~Contains(modelLower, "gemini") THEN req
        ELSE IF level = "" THEN req
        ELSE LET gc == IF req.generationConfig = Nil
                       THEN EmptyGenerationConfig
                       ELSE Deref(req.generationConfig)
                 tc == IF gc.thinkingConfig = Nil
                       THEN EmptyThinkingConfig
                       ELSE Deref(gc.thinkingConfig)
             IN  [req EXCEPT !.generationConfig =
                    Ptr([gc EXCEPT !.thinkingConfig =
                      Ptr([tc EXCEPT
                             !.thinkingLevel = level,
                             !.thinkingBudget = presetBudget(@)])])]

\* ------------------------------------------------- fillMissingParameters
ObjectSchema == [type |-> "OBJECT"]

filledParametersAlways(parameters) == Ptr(ObjectSchema)

\* Parameters of a declaration after fillMissingParameters.
filledParameters(parameters) ==
    IF parameters = Nil THEN Ptr(ObjectSchema) ELSE parameters

fillMissingParameters(tools) ==
    [toolIndex \in DOMAIN tools |->
       [functionDeclarations |->
          [fnIndex \in DOMAIN tools[toolIndex].functionDeclarations |->
             LET decl == tools[toolIndex].functionDeclarations[fnIndex]
             IN  [decl EXCEPT !.parameters = filledParameters(@)]]]]

\* --------------------------------------------- prepareAntigravityRequest
\* The two ID statements of prepareAntigravityRequest: called is the contents
\* after ensureFunctionCallIDs, contents the contents after
\* ensureFunctionResponseIDs.
backfillThenReconcile(contents, n) ==
    LET calls == ensureFunctionCallIDs(contents, n)
    IN  [called |-> calls.contents,
         contents |-> ensureFunctionResponseIDs(calls.contents),
         uuids |-> calls.uuids]

\* The request after each statement of prepareAntigravityRequest, with n
\* uuids handed out before the call.
prepareAntigravityRequest(req, n) ==
    LET tagged == [req EXCEPT !.userAgent = RequestUserAgent,
                              !.requestType = RequestTypeAgent]
        n1 == IF req.requestID = "" THEN n + 1 ELSE n
        identified == IF req.requestID = ""
                      THEN [tagged EXCEPT !.requestID = "agent-" \o UUID(n + 1)]
                      ELSE tagged
        session == IF identified.sessionID = ""
                   THEN deriveSessionID(identified.contents, n1)
                   ELSE [id |-> identified.sessionID, uuids |-> n1]
        sessioned == [identified EXCEPT !.sessionID = session.id]
        sanitized == [sessioned EXCEPT !.contents = sanitizeContents(@)]
        preset == applyGeminiThinkingPreset(sanitized)
        filled == [preset EXCEPT !.tools = fillMissingParameters(@)]
        calls == backfillThenReconcile(filled.contents, session.uuids)
        called == [filled EXCEPT !.contents = calls.called]
        responded == [called EXCEPT !.contents = calls.contents]
        final == [responded EXCEPT
                    !.systemInstruction = buildAntigravitySystemInstruction(@)]
    IN  [input |-> req, sanitized |-> sanitized, called |-> called,
         final |-> final, uuidsBefore |-> n, uuids |-> calls.uuids]

\* A call of prepareAntigravityRequest on the request in hand; the prepared
\* request is dispatched.
Prepare ==
    /\ request # Nil
    /\ LET log == prepareAntigravityRequest(Deref(request), uuidCount)
       IN  /\ prepLog' = Append(prepLog, log)
           /\ uuidCount' = log.uuids
    /\ request' = Nil
    /\ UNCHANGED <<cred, callVars, streamVars, messages, translated, auxVars>>

\* ------------------------------------------------ the requests prepared
\* No client call and no stream is in progress.
ClientIdle ==
    /\ cred = BlankToken
    /\ kind = [c \in Calls |-> "none"]
    /\ ctxDone = [c \in Calls |-> FALSE]
    /\ pc = [c \in Calls |-> "off"]
    /\ ep = [c \in Calls |-> 1]
    /\ tok = [c \in Calls |-> BlankToken]
    /\ ret = [c \in Calls |-> NoRet]
    /\ lastErr = [c \in Calls |-> NoErr]
    /\ result = [c \in Calls |-> Pending]
    /\ trace = [c \in Calls |-> <<>>]
    /\ recorded = [c \in Calls |-> <<>>]
    /\ StreamIdle

SeqsUpTo(S, n) == UNION {[1..k -> S] : k \in 0..n}

GenerateContentRequest(model, requestID, sessionID, contents, sys, tools, gc) ==
    [model |-> model, requestID |-> requestID, userAgent |-> "",
     requestType |-> "", sessionID |-> sessionID, contents |-> contents,
     systemInstruction |-> sys, tools |-> tools, generationConfig |-> gc]

PlainModel == <<"claude", "-sonnet">>

\* Conversations of function calls and responses, one part per content:
\* calls with an ID, without one and with a whitespace-only one; responses
\* with and without ID and name.
ToolParts ==
    {CallPart("1", "x"), CallPart("2", "x"), CallPart("2", "y"),
     CallPart("", "x"), CallPart(" ", "x"),
     ResponsePart("", "x"), ResponsePart("", "y"), ResponsePart("", ""),
     ResponsePart("1", "y"), ResponsePart("1", "")}
OnePartContents(parts) ==
    [i \in DOMAIN parts |->
       Content(IF parts[i].functionCall # Nil THEN "model" ELSE "user",
               <<parts[i]>>)]
ToolRequests(n) ==
    {GenerateContentRequest(PlainModel, "", "", OnePartContents(parts), Nil,
                            <<>>, Nil) : parts \in SeqsUpTo(ToolParts, n)}

\* Contents written as a sequence of items: a part, or the start of a new
\* content with a role. Parts before the first start belong to a user content.
PartItem(part) == [start |-> FALSE, role |-> "", part |-> part]
StartItem(role) == [start |-> TRUE, role |-> role, part |-> TextPart("")]
RECURSIVE ContentsOf(_, _)
ContentsOf(items, acc) ==
    IF items = <<>> THEN acc
    ELSE LET it == Head(items)
         IN  IF it.start
             THEN ContentsOf(Tail(items), Append(acc, Content(it.role, <<>>)))
             ELSE IF acc = <<>>
             THEN ContentsOf(Tail(items), <<Content("user", <<it.part>>)>>)
             ELSE ContentsOf(Tail(items),
                             [acc EXCEPT ![Len(acc)].parts = Append(@, it.part)])
TextItems ==
    {PartItem(p) : p \in {TextPart(""), TextPart("a"), TextPart("b"),
                          CallPart(" ", "x"), ContentPart("", "s", Nil, Nil)}}
    \cup {StartItem(r) : r \in {"user", "USER", "model"}}
TextRequests(n) ==
    {GenerateContentRequest(PlainModel, "", sessionID, ContentsOf(items, <<>>),
                            Nil, <<>>, Nil) :
       items \in SeqsUpTo(TextItems, n), sessionID \in {"", "s"}}

\* Model names, generation configs, tools and system instructions.
Models ==
    {<<"gemini", "-3-pro", "-low">>, <<"Gemini", "-3-pro", "-High">>,
     <<"gemini", "-3-pro">>, <<"claude", "-sonnet", "-high">>,
     <<"gemini", "-high", "-low">>, <<"gemini", "-LOW", "-high">>}
ThinkingConfigs ==
    {Nil, Ptr(EmptyThinkingConfig),
     Ptr([includeThoughts |-> TRUE, thinkingLevel |-> "",
          thinkingBudget |-> Ptr(0)]),
     Ptr([includeThoughts |-> TRUE, thinkingLevel |-> "high",
          thinkingBudget |-> Ptr(1024)])}
GenerationConfigs ==
    {Nil} \cup {Ptr([maxOutputTokens |-> 64, thinkingConfig |-> tc]) :
                  tc \in ThinkingConfigs}
Declarations ==
    {[name |-> "f", parameters |-> p] :
       p \in {Nil, Ptr(ObjectSchema), Ptr([type |-> "STRING"])}}
Tool(decls) == [functionDeclarations |-> decls]
ToolLists ==
    {<<>>} \cup {<<Tool(d)>> : d \in SeqsUpTo(Declarations, MaxDecls)}
    \cup {<<Tool(<<[name |-> "g", parameters |-> Nil]>>), Tool(d)>> :
            d \in SeqsUpTo(Declarations, MaxDecls)}
SystemInstructions ==
    {Nil} \cup {Ptr([role |-> "system", parts |-> parts]) :
                  parts \in SeqsUpTo(
                    {TextPart("s"), TextPart("t"), TextPart(""),
                     CallPart("1", "x"),
                     ContentPart("u", "sig", Ptr(FunctionCall("1", "x")), Nil)},
                    MaxSystemParts)}
ConfigRequests ==
    {GenerateContentRequest(m, requestID, "", <<>>, Nil, <<>>, gc) :
       m \in Models, requestID \in {"", "r"}, gc \in GenerationConfigs}
    \cup {GenerateContentRequest(PlainModel, "", "", <<>>, Nil, tools, Nil) :
            tools \in ToolLists}
    \cup {GenerateContentRequest(PlainModel, "", "", <<>>, system, <<>>, Nil) :
            system \in SystemInstructions}

\* A request has been decoded and is about to be prepared; earlier requests
\* of the process may have drawn uuids.
InitPrep ==
    /\ ClientIdle
    /\ \/ request \in {Ptr(r) : r \in ToolRequests(MaxParts)}
       \/ request \in {Ptr(r) : r \in TextRequests(MaxParts)}
       \/ request \in {Ptr(r) : r \in ConfigRequests}
    /\ prepLog = <<>>
    /\ uuidCount \in 0..1
    /\ messages = <<>>
    /\ translated = <<>>
    /\ AuxIdle

NextPrep == Prepare

SpecPrep == InitPrep /\ [][NextPrep]_vars

\* ------------------------------------------- requests one after the other
\* Contents with and without user text: the user text first, after a model
\* turn, after a user turn without text, in several parts, under a role
\* written in capitals, and followed by different later contents.
SessionContents ==
    {<<>>,
     <<Content("model", <<TextPart("a")>>)>>,
     <<Content("user", <<TextPart("")>>)>>,
     <<Content("user", <<CallPart("1", "x")>>),
       Content("model", <<TextPart("b")>>)>>,
     <<Content("user", <<TextPart("a")>>)>>,
     <<Content("USER", <<TextPart("a")>>)>>,
     <<Content("user", <<TextPart("a")>>), Content("model", <<TextPart("b")>>)>>,
     <<Content("user", <<TextPart("a")>>), Content("user", <<TextPart("b")>>)>>,
     <<Content("model", <<TextPart("b")>>), Content("user", <<TextPart("a")>>)>>,
     <<Content("user", <<TextPart("")>>), Content("user", <<TextPart("a")>>)>>,
     <<Content("user", <<TextPart("b")>>)>>,
     <<Content("user", <<TextPart("a"), TextPart("b")>>)>>,
     <<Content("user", <<TextPart("a"), TextPart(""), TextPart("b")>>),
       Content("model", <<TextPart("a")>>)>>}
SessionRequests ==
    {GenerateContentRequest(PlainModel, "", sessionID, contents, Nil, <<>>,
                            Nil) :
       contents \in SessionContents, sessionID \in {"", "s"}}
    \cup {GenerateContentRequest(
            <<"gemini", "-3-pro", "-high">>, "r", "", contents,
            Ptr([role |-> "system", parts |-> <<TextPart("s")>>]),
            <<Tool(<<[name |-> "f", parameters |-> Nil]>>)>>, Nil) :
            contents \in SessionContents}

\* GenerateContent or StreamGenerateContent is called with the next request.
Receive ==
    /\ request = Nil
    /\ Len(prepLog) < MaxRequests
    /\ request' \in {Ptr(r) : r \in SessionRequests}
    /\ UNCHANGED <<cred, callVars, streamVars, prepLog, uuidCount, messages,
                   translated, auxVars>>

InitSession ==
    /\ ClientIdle
    /\ request \in {Ptr(r) : r \in SessionRequests}
    /\ prepLog = <<>>
    /\ uuidCount = 0
    /\ messages = <<>>
    /\ translated = <<>>
    /\ AuxIdle

NextSession ==
    \/ Prepare
    \/ Receive

SpecSession == InitSession /\ [][NextSession]_vars


\* ===================================================== message translation
\* convertMessagesToGeminiContents turns the messages of an OpenAI chat
\* completion request into Gemini contents and a system instruction.

\* openai.Message; its Content is a string, an array of typed items, or absent.
Message(role, content, name, toolCallID, toolCalls) ==
    [role |-> role, content |-> content, name |-> name,
     toolCallID |-> toolCallID, toolCalls |-> toolCalls]
StringContent(text) == [kind |-> "string", text |-> text, items |-> <<>>]
ArrayContent(items) == [kind |-> "array", text |-> "", items |-> items]
NoContent == [kind |-> "nil", text |-> "", items |-> <<>>]
ContentItem(type, text) == [type |-> type, text |-> text]
ToolCall(id, name) == [id |-> id, name |-> name]

MissingFunctionName ==
    "tool response missing function name and unresolved tool_call_id"

\* The tool calls of the assistant messages, in order.
RECURSIVE assistantCalls(_)
assistantCalls(msgs) ==
    IF msgs = <<>> THEN <<>>
    ELSE (IF Head(msgs).role = "assistant" THEN Head(msgs).toolCalls
          ELSE <<>>)
         \o assistantCalls(Tail(msgs))

\* toolCallNameByID after the first loop: a later call overwrites an earlier
\* one with the same ID.
RECURSIVE namesByID(_, _)
namesByID(calls, byID) ==
    IF calls = <<>> THEN byID
    ELSE LET tc == Head(calls)
         IN  namesByID(Tail(calls),
                       IF tc.id # "" /\ tc.name # ""
                       THEN Store(byID, tc.id, tc.name)
                       ELSE byID)

\* The text items of an array content; the system and tool branches skip
\* the empty ones.
RECURSIVE itemTexts(_, _)
itemTexts(items, skipEmpty) ==
    IF items = <<>> THEN <<>>
    ELSE LET it == Head(items)
         IN  (IF it.type = "text" /\ (~skipEmpty \/ it.text # "")
              THEN <<it.text>>
              ELSE <<>>)
             \o itemTexts(Tail(items), skipEmpty)

TextParts(texts) == [i \in DOMAIN texts |-> TextPart(texts[i])]

\* The parts a system message adds to the system instruction.
systemParts(content) ==
    CASE content.kind = "string" ->
           IF content.text # "" THEN <<TextPart(content.text)>> ELSE <<>>
      [] content.kind = "array" -> TextParts(itemTexts(content.items, TRUE))
      [] OTHER -> <<>>

\* The role switch.
geminiRole(role) ==
    CASE role = "user" -> "user"
      [] role = "assistant" -> "model"
      [] OTHER -> "user"

\* resolvedName of a tool message.
resolvedName(msg, byID) ==
    IF msg.name = "" /\ msg.toolCallID # "" /\ msg.toolCallID \in DOMAIN byID
    THEN byID[msg.toolCallID]
    ELSE msg.name

\* resolvedID of a tool message whose name resolved to name.
resolvedID(msg, name, byName) ==
    LET id == TrimSpace(msg.toolCallID)
    IN  IF id = "" /\ name # "" /\ name \in DOMAIN byName
        THEN byName[name]
        ELSE id

\* The output a tool message forwards.
toolOutput(content) ==
    IF content.kind = "string" THEN content.text
    ELSE Join(itemTexts(content.items, TRUE), "\n")

\* The functionCall parts of an assistant message, with the maps and the
\* uuid count they leave.
RECURSIVE callParts(_, _)
callParts(toolCalls, st) ==
    IF toolCalls = <<>> THEN st
    ELSE LET tc == Head(toolCalls)
             blank == TrimSpace(tc.id) = ""
             id == IF blank THEN "toolu_" \o UUID(st.uuids + 1) ELSE tc.id
             named == tc.name # ""
         IN  callParts(
               Tail(toolCalls),
               [parts |-> Append(st.parts, CallPart(id, tc.name)),
                uuids |-> IF blank THEN st.uuids + 1 ELSE st.uuids,
                byID |-> IF named THEN Store(st.byID, id, tc.name)
                         ELSE st.byID,
                byName |-> IF named THEN Store(st.byName, tc.name, id)
                           ELSE st.byName])

isDeferredNever(role) == FALSE

\* The test that moves the parts of a message to pendingToolParts.
isDeferred(role) == ToLower(role) = "tool"

systemInstructionReplaced(system, content) ==
    Ptr([role |-> "system", parts |-> systemParts(content)])

\* The system instruction after a system message with this content: created
\* on the first system message, appended to by every one.
systemInstructionWith(system, content) ==
    Ptr([role |-> "system",
         parts |-> (IF system = Nil THEN <<>> ELSE Deref(system).parts)
                   \o systemParts(content)])

\* One iteration of the second loop, for message number m.
convertMessage(st, msg, m) ==
    IF msg.role = "system"
    THEN [st EXCEPT !.system = systemInstructionWith(st.system, msg.content)]
    ELSE
      LET name == resolvedName(msg, st.byID)
          isTool == msg.role = "tool" /\ msg.content.kind # "nil"
          own == CASE isTool ->
                        <<ToolResponsePart(resolvedID(msg, name, st.byName),
                                           name, toolOutput(msg.content))>>
                   [] msg.content.kind = "string" ->
                        <<TextPart(msg.content.text)>>
                   [] msg.content.kind = "array" ->
                        TextParts(itemTexts(msg.content.items, FALSE))
                   [] OTHER -> <<>>
          calls == IF msg.role = "assistant"
                   THEN callParts(msg.toolCalls,
                                  [parts |-> own, uuids |-> st.uuids,
                                   byID |-> st.byID, byName |-> st.byName])
                   ELSE [parts |-> own, uuids |-> st.uuids,
                         byID |-> st.byID, byName |-> st.byName]
          parts == calls.parts
          from == [i \in DOMAIN parts |-> m]
      IN
      IF isTool /\ name = ""
      THEN [st EXCEPT !.err = MissingFunctionName]
      ELSE IF isDeferred(msg.role)
      THEN [st EXCEPT !.pending = @ \o parts,
                      !.pendingFrom = @ \o from,
                      !.uuids = calls.uuids,
                      !.byID = calls.byID, !.byName = calls.byName]
      ELSE IF Len(parts) > 0
      THEN [st EXCEPT !.contents = Append(@, Content(geminiRole(msg.role),
                                                     parts)),
                      !.origin = Append(@, from),
                      !.uuids = calls.uuids,
                      !.byID = calls.byID, !.byName = calls.byName]
      ELSE [st EXCEPT !.uuids = calls.uuids,
                      !.byID = calls.byID, !.byName = calls.byName]

RECURSIVE convertFrom(_, _, _)
convertFrom(msgs, m, st) ==
    IF m > Len(msgs) \/ st.err # "" THEN st
    ELSE convertFrom(msgs, m + 1, convertMessage(st, msgs[m], m))

\* convertMessagesToGeminiContents with n uuids handed out so far: the
\* contents, the system instruction and the error it returns; origin gives,
\* for every part of the contents, the number of the message it came from.
convertMessagesToGeminiContents(msgs, n) ==
    LET st == convertFrom(
                msgs, 1,
                [contents |-> <<>>, origin |-> <<>>, system |-> Nil,
                 pending |-> <<>>, pendingFrom |-> <<>>, uuids |-> n,
                 byID |-> namesByID(assistantCalls(msgs), [k \in {} |-> ""]),
                 byName |-> [k \in {} |-> ""], err |-> ""])
        tail == Len(st.pending) > 0
    IN  IF st.err # ""
        THEN [contents |-> <<>>, origin |-> <<>>, systemInstruction |-> Nil,
              err |-> st.err, uuids |-> st.uuids]
        ELSE [contents |-> st.contents
                           \o (IF tail THEN <<Content("user", st.pending)>>
                               ELSE <<>>),
              origin |-> st.origin
                         \o (IF tail THEN <<st.pendingFrom>> ELSE <<>>),
              systemInstruction |-> st.system,
              err |-> "", uuids |-> st.uuids]

\* A call of convertMessagesToGeminiContents on the messages in hand.
Translate ==
    /\ translated = Nil
    /\ LET r == convertMessagesToGeminiContents(messages, uuidCount)
       IN  /\ translated' = Ptr(r)
           /\ uuidCount' = r.uuids
    /\ UNCHANGED <<cred, callVars, streamVars, request, prepLog, messages,
                   auxVars>>

\* The messages translated: system, user and assistant turns, assistant tool
\* calls with and without an ID, and tool results with a name, with only a
\* tool_call_id, with neither, without content, and under a role in capitals.
Messages ==
    {Message("system", StringContent("s"), "", "", <<>>),
     Message("system", ArrayContent(<<ContentItem("text", "s2"),
                                      ContentItem("text", "")>>), "", "", <<>>),
     Message("user", StringContent("u"), "", "", <<>>),
     Message("user", ArrayContent(<<ContentItem("text", "a"),
                                    ContentItem("image_url", ""),
                                    ContentItem("text", "")>>), "", "", <<>>),
     Message("assistant", StringContent("m"), "", "", <<ToolCall("1", "x")>>),
     Message("assistant", NoContent, "", "", <<ToolCall("", "x")>>),
     Message("tool", StringContent("r"), "x", "1", <<>>),
     Message("tool", ArrayContent(<<ContentItem("text", "o1"),
                                    ContentItem("text", "o2")>>), "", "1",
             <<>>),
     Message("tool", StringContent("p"), "x", "", <<>>),
     Message("tool", StringContent("q"), "", "", <<>>),
     Message("tool", NoContent, "", "", <<>>),
     Message("TOOL", StringContent("t"), "", "", <<>>)}

\* A chat completion request has been decoded and is about to be translated.
InitTranslate ==
    /\ ClientIdle
    /\ request = Nil
    /\ prepLog = <<>>
    /\ uuidCount = 0
    /\ messages \in SeqsUpTo(Messages, MaxMessages)
    /\ translated = Nil
    /\ AuxIdle

NextTranslate == Translate

SpecTranslate == InitTranslate /\ [][NextTranslate]_vars

\* ======================================================= schema conversion
\* ConvertSchema turns a JSON schema, decoded as map[string]interface{}, into
\* a GeminiParameterSchema.

\* A decoded JSON scalar: a string, or a value of another kind.
JStr(s) == [kind |-> "string", s |-> s]
JNum(s) == [kind |-> "number", s |-> s]

\* A decoded JSON schema object. A keyword that is absent is Nil. type and
\* description hold a scalar; required and enum a list of scalars;
\* properties a map whose values are schema objects, or Nil for a value that
\* is not an object; items a schema object (Nil also when it is not an
\* object); anyOf and oneOf a list of schema objects, Nil for an element that
\* is not an object; other is the set of the remaining keywords.
JSONSchema(type, desc, req, enum, props, items, anyOf, oneOf, other) ==
    [type |-> type, description |-> desc, required |-> req, enum |-> enum,
     properties |-> props, items |-> items, anyOf |-> anyOf, oneOf |-> oneOf,
     other |-> other]

\* antigravity.GeminiParameterSchema
GeminiParameterSchema(type, desc, props, items, req, enum) ==
    [type |-> type, description |-> desc, properties |-> props,
     items |-> items, required |-> req, enum |-> enum]

\* strings.ToUpper on the type names of the model.
ToUpper(t) ==
    CASE t = "string" -> "STRING"
      [] t = "array" -> "ARRAY"
      [] t = "object" -> "OBJECT"
      [] t = "number" -> "NUMBER"
      [] t = "Integer" -> "INTEGER"
      [] OTHER -> t

\* value.(string): the string, or "" when the keyword is absent or holds
\* another kind of value.
asString(value) ==
    IF value # Nil /\ Deref(value).kind = "string" THEN Deref(value).s ELSE ""

allEntries(list) ==
    IF list = Nil THEN <<>>
    ELSE [i \in DOMAIN Deref(list) |-> Deref(list)[i].s]

\* The string entries of a required or enum list, in order.
stringEntries(list) ==
    IF list = Nil THEN <<>>
    ELSE LET IsString(v) == v.kind = "string"
             kept == SelectSeq(Deref(list), IsString)
         IN  [i \in DOMAIN kept |-> kept[i].s]

\* subSchemas: the anyOf list if there is one, else the oneOf list.
subSchemas(input) == IF input.anyOf # Nil THEN input.anyOf ELSE input.oneOf

\* subSchemaMap["type"] == "array"
isArraySchema(sub) ==
    /\ sub # Nil
    /\ Deref(sub).type # Nil
    /\ Deref(sub).type = Ptr(JStr("array"))

\* The position of the first sub-schema of type array at or after position
\* k, 0 when there is none.
RECURSIVE firstArray(_, _)
firstArray(list, k) ==
    IF k > Len(list) THEN 0
    ELSE IF isArraySchema(list[k]) THEN k
    ELSE firstArray(list, k + 1)

\* The chosen sub-schema after the parent's description was written into it.
withParentDescription(input, sub) ==
    IF input.description # Nil /\ Deref(input.description).kind = "string"
    THEN [sub EXCEPT !.description = input.description]
    ELSE sub

\* ConvertSchema; a nil map is Nil. The write into the chosen sub-schema is
\* seen by the recursive call.
RECURSIVE ConvertSchema(_)
ConvertSchema(input) ==
    IF input = Nil THEN Nil
    ELSE
      LET in == Deref(input)
          subs == subSchemas(in)
          k == IF subs = Nil THEN 0 ELSE firstArray(Deref(subs), 1)
      IN
      IF k > 0
      THEN ConvertSchema(Ptr(withParentDescription(in, Deref(Deref(subs)[k]))))
      ELSE
        LET p == Deref(in.properties)
        IN  Ptr(GeminiParameterSchema(
                  ToUpper(asString(in.type)),
                  asString(in.description),
                  IF in.properties = Nil THEN Nil
                  ELSE Ptr([key \in {x \in DOMAIN p : p[x] # Nil} |->
                              ConvertSchema(p[key])]),
                  ConvertSchema(in.items),
                  stringEntries(in.required),
                  stringEntries(in.enum)))

\* The caller's map after ConvertSchema returned: the chosen array sub-schema
\* holds the parent's description, written into the map that the list refers
\* to, and so on in every map the recursion went through.
RECURSIVE afterConvertSchema(_)
afterConvertSchema(input) ==
    IF input = Nil THEN Nil
    ELSE
      LET in == Deref(input)
          subs == subSchemas(in)
          k == IF subs = Nil THEN 0 ELSE firstArray(Deref(subs), 1)
      IN
      IF k > 0
      THEN LET sub == afterConvertSchema(
                        Ptr(withParentDescription(in, Deref(Deref(subs)[k]))))
               list == Ptr([Deref(subs) EXCEPT ![k] = sub])
           IN  Ptr(IF in.anyOf # Nil THEN [in EXCEPT !.anyOf = list]
                   ELSE [in EXCEPT !.oneOf = list])
      ELSE
        LET p == Deref(in.properties)
        IN  Ptr([in EXCEPT
                   !.properties =
                      IF in.properties = Nil THEN Nil
                      ELSE Ptr([key \in DOMAIN p |-> afterConvertSchema(p[key])]),
                   !.items = afterConvertSchema(in.items)])

\* A call of ConvertSchema on the schema in hand: converted holds the argument
\* as it was handed over and what the call returned, schema the caller's map
\* after the call.
Convert ==
    /\ converted = Nil
    /\ converted' = Ptr([argument |-> schema, result |-> ConvertSchema(schema)])
    /\ schema' = afterConvertSchema(schema)
    /\ UNCHANGED <<cred, callVars, streamVars, request, prepLog, uuidCount,
                   messages, translated, sse, disc, server>>

\* ---------------------------------------------------- the schemas converted
\* A schema with only a type and a description.
Typed(type, desc) == JSONSchema(type, desc, Nil, Nil, Nil, Nil, Nil, Nil, {})
ArrayOf(items, desc) ==
    JSONSchema(Ptr(JStr("array")), desc, Nil, Nil, Nil, Ptr(items), Nil, Nil, {})

\* The sub-schemas listed: a string, an array of strings, an array and a
\* string with a description of their own, and an element that is no object.
SubSchemas ==
    {Nil,
     Ptr(Typed(Ptr(JStr("string")), Nil)),
     Ptr(ArrayOf(Typed(Ptr(JStr("string")), Nil), Nil)),
     Ptr(Typed(Ptr(JStr("array")), Ptr(JStr("c")))),
     Ptr(Typed(Ptr(JStr("string")), Ptr(JStr("c"))))}
SubSchemaLists(n) == {Nil} \cup {Ptr(l) : l \in SeqsUpTo(SubSchemas, n)}

\* Schemas with anyOf, oneOf, both or neither, with and without a type and
\* a description of their own.
UnionSchemas(n) ==
    {JSONSchema(t, d, Nil, Nil, Nil, Nil, a, o, {}) :
       t \in {Nil, Ptr(JStr("object"))},
       d \in {Nil, Ptr(JStr("p")), Ptr(JStr(""))},
       a \in SubSchemaLists(n), o \in SubSchemaLists(n)}

\* Schemas with a type and a description that are strings, other values or
\* absent, and with keywords that have no counterpart.
Unsupported == {"$schema", "additionalProperties", "exclusiveMinimum"}
ScalarSchemas ==
    {JSONSchema(t, d, Nil, Nil, Nil, Nil, Nil, Nil, other) :
       t \in {Nil, Ptr(JStr("string")), Ptr(JStr("object")),
              Ptr(JStr("Integer")), Ptr(JNum("1"))},
       d \in {Nil, Ptr(JStr("d")), Ptr(JNum("1"))},
       other \in {{}, Unsupported}}

\* Schemas with required and enum lists of strings and other values.
Entries == {JStr("a"), JStr("b"), JNum("1")}
EntryLists == {Nil} \cup {Ptr(l) : l \in SeqsUpTo(Entries, MaxEntries)}
ListSchemas ==
    {JSONSchema(Ptr(JStr("object")), Nil, r, e, Nil, Nil, Nil, Nil, {}) :
       r \in EntryLists, e \in EntryLists}

\* Schemas with properties and items: no key, one key, two keys; values
\* that are a string schema, an array schema, a schema with anyOf under a
\* description, a schema with properties of its own, and a value that is no
\* object.
Nested ==
    JSONSchema(Nil, Ptr(JStr("p")), Nil, Nil, Nil, Nil,
               Ptr(<<Ptr(Typed(Ptr(JStr("string")), Nil)),
                     Ptr(ArrayOf(Typed(Ptr(JStr("string")), Nil), Nil))>>),
               Nil, {})
Inner ==
    JSONSchema(Ptr(JStr("object")), Nil, Ptr(<<JStr("a"), JNum("1")>>), Nil,
               Ptr([key \in {"a"} |-> Ptr(Typed(Ptr(JStr("string")),
                                                Ptr(JStr("d"))))]),
               Nil, Nil, Nil, Unsupported)
PropertyValues ==
    {Nil, Ptr(Typed(Ptr(JStr("string")), Nil)), Ptr(Nested), Ptr(Inner)}
PropertyMaps ==
    {Nil}
    \cup {Ptr([key \in {} |-> Nil])}
    \cup {Ptr([key \in {"k1"} |-> v]) : v \in PropertyValues}
    \cup {Ptr([key \in {"k1", "k2"} |-> IF key = "k1" THEN v ELSE w]) :
            v \in PropertyValues, w \in PropertyValues}
ObjectSchemas ==
    {JSONSchema(Ptr(JStr("object")), Nil, Nil, Nil, p, i, Nil, Nil, {}) :
       p \in PropertyMaps,
       i \in {Nil, Ptr(Typed(Ptr(JStr("string")), Nil)), Ptr(Nested),
              Ptr(Inner)}}

\* The schemas of the model, with up to n branches in a union.
Schemas(n) ==
    UnionSchemas(n) \cup ScalarSchemas \cup ListSchemas \cup ObjectSchemas

\* A tool's parameter schema has been decoded and is about to be converted;
\* a tool without parameters hands over a nil map.
InitSchema ==
    /\ ClientIdle
    /\ request = Nil
    /\ prepLog = <<>>
    /\ uuidCount = 0
    /\ messages = <<>>
    /\ translated = Nil
    /\ schema \in {Nil} \cup {Ptr(s) : s \in Schemas(MaxBranches)}
    /\ converted = Nil
    /\ sse = <<>>
    /\ disc = DiscIdle
    /\ server = ServerIdle

NextSchema == Convert

SpecSchema == InitSchema /\ [][NextSchema]_vars

\* ========================================================== SSE transform
\* TransformSSELine rewrites one line of an upstream event stream.

\* The JSON texts of the model. An object text lists its members in the
\* order written, possibly with a key more than once; spaced says that the
\* text holds insignificant white space. "array" stands for a JSON text that
\* is neither an object nor null, "invalid" for a text that is not JSON.
Text(form, n, spaced, members) ==
    [kind |-> form, n |-> n, spaced |-> spaced, members |-> members]
Num(n) == Text("number", n, FALSE, <<>>)
Obj(members, spaced) == Text("object", 0, spaced, members)
Member(key, value) == [key |-> key, value |-> value]
\* A line: data says that it starts with "data: ", payload is the rest.
SSELine(data, payload) == [data |-> data, payload |-> payload]

\* What json.Unmarshal stores in an interface{} or a map: a number, or a map
\* of the keys to their values.
Decoded(form, n, fields) == [kind |-> form, n |-> n, fields |-> fields]
\* The keys of the model, in the order json.Marshal writes them.
SortedKeys == <<"a", "b", "response">>

\* The value of the last member with this key.
RECURSIVE lastValue(_, _)
lastValue(members, key) ==
    IF members[Len(members)].key = key THEN members[Len(members)].value
    ELSE lastValue(SubSeq(members, 1, Len(members) - 1), key)

\* json.Unmarshal of a number or an object text.
RECURSIVE decode(_)
decode(text) ==
    IF text.kind = "number" THEN Decoded("number", text.n, <<>>)
    ELSE Decoded("object", 0,
                 [key \in {text.members[i].key : i \in DOMAIN text.members} |->
                    decode(lastValue(text.members, key))])

\* json.Marshal of a decoded value: no white space, keys sorted.
RECURSIVE encode(_)
encode(value) ==
    IF value.kind = "number" THEN Num(value.n)
    ELSE LET Present(key) == key \in DOMAIN value.fields
             keys == SelectSeq(SortedKeys, Present)
         IN  Obj([i \in DOMAIN keys |->
                    Member(keys[i], encode(value.fields[keys[i]]))], FALSE)

unwrapTopLevelWins(cloudCodeResp) ==
    IF "response" \in DOMAIN cloudCodeResp
       /\ cloudCodeResp["response"].kind = "object"
    THEN LET response == cloudCodeResp["response"].fields
             top == DOMAIN cloudCodeResp \ {"response"}
         IN  [key \in top \cup DOMAIN response |->
                IF key \in top THEN cloudCodeResp[key] ELSE response[key]]
    ELSE cloudCodeResp

\* unwrapCloudCodeResponse on a map that is not nil.
unwrapCloudCodeResponse(cloudCodeResp) ==
    IF "response" \in DOMAIN cloudCodeResp
       /\ cloudCodeResp["response"].kind = "object"
    THEN LET response == cloudCodeResp["response"].fields
             top == DOMAIN cloudCodeResp \ {"response"}
         IN  [key \in top \cup DOMAIN response |->
                IF key \in DOMAIN response THEN response[key]
                ELSE cloudCodeResp[key]]
    ELSE cloudCodeResp

\* TransformSSELine. Unmarshal into a map fails for a text that is not JSON
\* and for JSON that is neither an object nor null; null leaves the map nil,
\* which unwrapCloudCodeResponse returns and Marshal writes as null.
TransformSSELine(l) ==
    IF ~l.data THEN l
    ELSE CASE l.payload.kind = "object" ->
                SSELine(TRUE,
                        encode(Decoded("object", 0,
                                 unwrapCloudCodeResponse(
                                   decode(l.payload).fields))))
           [] l.payload.kind = "null" ->
                SSELine(TRUE, Text("null", 0, FALSE, <<>>))
           [] OTHER -> l

\* A call of TransformSSELine on the line in hand gives the next line.
Transform ==
    /\ Len(sse) \in 1..2
    /\ sse' = Append(sse, TransformSSELine(sse[Len(sse)]))
    /\ UNCHANGED <<cred, callVars, streamVars, request, prepLog, uuidCount,
                   messages, translated, schema, converted, disc,
                   server>>

\* ------------------------------------------------------ the lines received
\* The values of members: numbers, an object, an object written with white
\* space and unsorted keys, and an object that holds a response itself.
Values ==
    {Num(1), Num(2),
     Obj(<<Member("a", Num(2)), Member("b", Num(3))>>, FALSE),
     Obj(<<Member("b", Num(3)), Member("a", Num(2))>>, TRUE),
     Obj(<<Member("response", Obj(<<Member("a", Num(1))>>, FALSE))>>, FALSE)}
Members == {Member(key, v) : key \in {"a", "b", "response"}, v \in Values}
Payloads ==
    {Obj(m, spaced) : m \in SeqsUpTo(Members, MaxMembers), spaced \in BOOLEAN}
    \cup {Text("null", 0, spaced, <<>>) : spaced \in BOOLEAN}
    \cup {Text("array", 0, FALSE, <<>>), Text("invalid", 0, FALSE, <<>>)}
Lines == {SSELine(data, p) : data \in BOOLEAN, p \in Payloads}

\* A line of the upstream stream has been read.
InitSSE ==
    /\ ClientIdle
    /\ request = Nil
    /\ prepLog = <<>>
    /\ uuidCount = 0
    /\ messages = <<>>
    /\ translated = Nil
    /\ schema = Nil
    /\ converted = Nil
    /\ sse \in {<<l>> : l \in Lines}
    /\ disc = DiscIdle
    /\ server = ServerIdle

NextSSE == Transform

SpecSSE == InitSSE /\ [][NextSSE]_vars

\* ======================================================= project discovery
\* Discover determines the project id; runOnboardingFlow and callEndpoint
\* are the calls it makes. disc.pc is the position in them; disc.calls
\* counts the calls of callEndpoint, disc.trace holds the observed calls of
\* the provider and of httpClient.Do in the latest of them, disc.sent the
\* bodies of all requests.

\* antigravity.LoadCodeAssistResponse and antigravity.Tier
LoadCodeAssistResponse(gcpManaged, companionProject, allowedTiers) ==
    [gcpManaged |-> gcpManaged, companionProject |-> companionProject,
     allowedTiers |-> allowedTiers]
Tier(id, isDefault) == [id |-> id, isDefault |-> isDefault]
FreeTier == "free-tier"
InitialProjectID == "default"
\* The onboardUser request body.
OnboardRequest(tierID) ==
    [method |-> "onboardUser", tierId |-> tierID,
     cloudaicompanionProject |-> InitialProjectID,
     duetProject |-> InitialProjectID]
\* What Discover returns.
Returns(id, err) == Ptr([id |-> id, err |-> err])
\* A decoded onboardUser response: done, and the id of the nested companion
\* project, "" when there is none or it is not a string.
LRO(done, id) == [done |-> done, id |-> id]

\* The ID of the first default tier, "" when there is none.
RECURSIVE defaultTier(_)
defaultTier(tiers) ==
    IF tiers = <<>> THEN ""
    ELSE IF Head(tiers).isDefault THEN Head(tiers).id
    ELSE defaultTier(Tail(tiers))
selectedTier(tiers) ==
    IF defaultTier(tiers) = "" THEN FreeTier ELSE defaultTier(tiers)

useOverrideNever(envProjectID) == FALSE

\* The test for the environment variable override.
useOverride(envProjectID) == envProjectID # ""

hasCompanionProjectAlways(loadResponse) == TRUE

\* runOnboardingFlow returns the companion project of the load response when
\* there is one.
hasCompanionProject(loadResponse) == loadResponse.companionProject # ""

\* Discover from its entry to its return or to the first callEndpoint of
\* runOnboardingFlow.
DiscoverEnter ==
    /\ disc.pc = "discover"
    /\ disc' =
         IF useOverride(disc.env)
         THEN [disc EXCEPT !.pc = "done", !.ret = Returns(disc.env, "")]
         ELSE IF disc.load = Nil
         THEN [disc EXCEPT !.pc = "done",
                           !.ret = Returns("", "loadAssist response is nil")]
         ELSE IF ~Deref(disc.load).gcpManaged
                 \/ hasCompanionProject(Deref(disc.load))
         THEN [disc EXCEPT !.pc = "done",
                           !.ret = Returns(Deref(disc.load).companionProject,
                                           "")]
         ELSE [disc EXCEPT !.pc = "callEndpoint",
                           !.tierID = selectedTier(Deref(disc.load).allowedTiers)]
    /\ UNCHANGED <<cred, callVars, streamVars, request, prepLog, uuidCount,
                   messages, translated, schema, converted, sse,
                   server>>

\* callEndpoint returned an error: runOnboardingFlow and Discover return it,
\* wrapped as a failure of the first call or of a poll.
CallFailed(d, cause) ==
    [d EXCEPT !.pc = "done",
              !.lastErr = cause,
              !.ret = Returns("", IF d.polls = 0
                                  THEN "failed to call onboardUser"
                                  ELSE "failed to poll onboardUser")]

SentFreeTierOnPoll(d, token) ==
    [d EXCEPT !.token = token,
              !.trace = Append(@, Ev("req", d.dep, token)),
              !.sent = Append(@, OnboardRequest(IF d.polls = 0 THEN d.tierID
                                                ELSE FreeTier))]

\* The request to the current endpoint, with the token in hand.
Sent(d, token) ==
    [d EXCEPT !.token = token,
              !.trace = Append(@, Ev("req", d.dep, token)),
              !.sent = Append(@, OnboardRequest(d.tierID))]

\* callEndpoint from its entry to the first httpClient.Do.
EndpointEnter ==
    /\ disc.pc = "callEndpoint"
    /\ \E ok \in BOOLEAN :
         LET entered == [disc EXCEPT !.calls = @ + 1, !.dep = 1,
                                     !.lastErr = "", !.lro = Nil]
         IN  disc' =
               IF ~ok
               THEN CallFailed([entered EXCEPT !.trace = <<Ev("creds", 1, -1)>>],
                               "getCredentials")
               ELSE [Sent([entered EXCEPT !.trace = <<Ev("creds", 1, cred)>>],
                          cred)
                     EXCEPT !.pc = "await"]
    /\ UNCHANGED <<cred, callVars, streamVars, request, prepLog, uuidCount,
                   messages, translated, schema, converted, sse,
                   server>>

\* The loop goes on after recording err: next endpoint, or lastErr returned.
EndpointContinue(d, err) ==
    IF d.dep < NumEndpoints
    THEN [Sent([d EXCEPT !.dep = @ + 1, !.lastErr = err], d.token)
          EXCEPT !.pc = "await"]
    ELSE CallFailed(d, err)

\* The response outcomes of the model.
LROs == {LRO(FALSE, ""), LRO(TRUE, "o"), LRO(TRUE, "")}

\* callEndpoint after ioutil.ReadAll returned for a response with this
\* status: the read error and the status are tested, the body is decoded.
EndpointResult(d, status, readOK, decodeOK, lro) ==
    IF ~readOK THEN EndpointContinue(d, "readBody")
    ELSE IF status # StatusOK THEN EndpointContinue(d, "status")
    ELSE IF ~decodeOK THEN CallFailed(d, "unmarshal")
    ELSE [d EXCEPT !.pc = "poll", !.lro = Ptr(lro)]

\* httpClient.Do returns for the first request to an endpoint: a transport
\* failure goes on to the next endpoint, a 401 calls RefreshToken, any other
\* response has its body read next.
EndpointRespond ==
    /\ disc.pc = "await"
    /\ \E r \in Statuses \cup {TransportFailure} :
         LET seen == [disc EXCEPT !.trace = Append(@, Ev("resp", disc.dep, r))]
         IN  disc' =
               IF r = TransportFailure THEN EndpointContinue(seen, "execution")
               ELSE IF r = StatusUnauthorized
               THEN [seen EXCEPT !.pc = "refreshing",
                                 !.trace = Append(@, Ev("refresh", disc.dep, 0))]
               ELSE [seen EXCEPT !.pc = "readBody"]
    /\ UNCHANGED <<cred, callVars, streamVars, request, prepLog, uuidCount,
                   messages, translated, schema, converted, sse,
                   server>>

\* ioutil.ReadAll(resp.Body) returns for the response received last, of the
\* first or of the repeated request; the body is closed and the outcome
\* decided.
EndpointRead ==
    /\ disc.pc = "readBody"
    /\ \E readOK \in BOOLEAN, decodeOK \in BOOLEAN, lro \in LROs :
         disc' = EndpointResult(disc, disc.trace[Len(disc.trace)].v,
                                readOK, decodeOK, lro)
    /\ UNCHANGED <<cred, callVars, streamVars, request, prepLog, uuidCount,
                   messages, translated, schema, converted, sse,
                   server>>

\* provider.RefreshToken returns: an error, which ends the call, or nil with
\* the provider holding the token the refresh stored.
EndpointRefresh ==
    /\ disc.pc = "refreshing"
    /\ \/ /\ disc' = CallFailed([disc EXCEPT !.trace =
                                    Append(@, Ev("refreshed", disc.dep, 0))],
                                "refresh")
          /\ cred' = cred
       \/ /\ cred' \in Tokens
          /\ disc' = [disc EXCEPT !.pc = "reload",
                                  !.trace = Append(@, Ev("refreshed", disc.dep, 1))]
    /\ UNCHANGED <<callVars, streamVars, request, prepLog, uuidCount,
                   messages, translated, schema, converted, sse,
                   server>>

\* The credentials are read again, as the provider holds them by now, and the
\* request is repeated on the same endpoint.
EndpointReload ==
    /\ disc.pc = "reload"
    /\ \E ok \in BOOLEAN :
         disc' = IF ~ok
                 THEN CallFailed([disc EXCEPT !.trace =
                                    Append(@, Ev("creds", disc.dep, -1))],
                                 "reload")
                 ELSE [Sent([disc EXCEPT !.trace =
                               Append(@, Ev("creds", disc.dep, cred))],
                            cred)
                       EXCEPT !.pc = "retryAwait"]
    /\ UNCHANGED <<cred, callVars, streamVars, request, prepLog, uuidCount,
                   messages, translated, schema, converted, sse,
                   server>>

\* httpClient.Do returns for the repeated request: a transport failure ends
\* the call, any response, a second 401 included, has its body read next.
EndpointRetryRespond ==
    /\ disc.pc = "retryAwait"
    /\ \E r \in Statuses \cup {TransportFailure} :
         LET seen == [disc EXCEPT !.trace = Append(@, Ev("resp", disc.dep, r))]
         IN  disc' =
               IF r = TransportFailure THEN CallFailed(seen, "retry")
               ELSE [seen EXCEPT !.pc = "readBody"]
    /\ UNCHANGED <<cred, callVars, streamVars, request, prepLog, uuidCount,
                   messages, translated, schema, converted, sse,
                   server>>

reportsDoneNever(lro) == FALSE

\* done, ok := lroResponse["done"].(bool); ok && done
reportsDone(lro) == lro.done

\* One iteration of the polling loop on the response in hand: return when it
\* reports done, else sleep and call onboardUser again.
Poll ==
    /\ disc.pc = "poll"
    /\ reportsDone(Deref(disc.lro)) \/ disc.polls < MaxPolls
    /\ disc' =
         IF reportsDone(Deref(disc.lro))
         THEN [disc EXCEPT
                 !.pc = "done",
                 !.ret = IF Deref(disc.lro).id # ""
                         THEN Returns(Deref(disc.lro).id, "")
                         ELSE Returns("", "onboarding completed but no project ID found")]
         ELSE [disc EXCEPT !.pc = "callEndpoint", !.polls = @ + 1]
    /\ UNCHANGED <<cred, callVars, streamVars, request, prepLog, uuidCount,
                   messages, translated, schema, converted, sse,
                   server>>

\* The override project ids, the load responses and the tier lists of the
\* model.
Overrides == {"", "e", " e "}
TierLists ==
    {<<>>, <<Tier("t1", FALSE), Tier("t2", TRUE)>>, <<Tier("", TRUE)>>}
LoadResponses ==
    {Nil} \cup {Ptr(LoadCodeAssistResponse(g, c, t)) :
                  g \in BOOLEAN, c \in {"", "c"}, t \in TierLists}

\* Discover has been called with an override or none and with a load
\* response or none; no client call is in progress.
InitDiscover ==
    /\ cred \in Tokens
    /\ kind = [c \in Calls |-> "none"]
    /\ ctxDone = [c \in Calls |-> FALSE]
    /\ pc = [c \in Calls |-> "off"]
    /\ ep = [c \in Calls |-> 1]
    /\ tok = [c \in Calls |-> BlankToken]
    /\ ret = [c \in Calls |-> NoRet]
    /\ lastErr = [c \in Calls |-> NoErr]
    /\ result = [c \in Calls |-> Pending]
    /\ trace = [c \in Calls |-> <<>>]
    /\ recorded = [c \in Calls |-> <<>>]
    /\ StreamIdle
    /\ request = Nil
    /\ prepLog = <<>>
    /\ uuidCount = 0
    /\ messages = <<>>
    /\ translated = Nil
    /\ schema = Nil
    /\ converted = Nil
    /\ sse = <<>>
    /\ server = ServerIdle
    /\ \E e \in Overrides, l \in LoadResponses :
         disc = [DiscIdle EXCEPT !.pc = "discover", !.env = e, !.load = l]

NextDiscover ==
    \/ DiscoverEnter
    \/ EndpointEnter
    \/ EndpointRespond
    \/ EndpointRefresh
    \/ EndpointReload
    \/ EndpointRetryRespond
    \/ EndpointRead
    \/ Poll
    \/ ProviderUpdate

SpecDiscover == InitDiscover /\ [][NextDiscover]_vars

\* Discover has been called without an override for a managed account that
\* has no companion project yet.
InitOnboarding ==
    /\ InitDiscover
    /\ cred = 1
    /\ disc.env = ""
    /\ disc.load = Ptr(LoadCodeAssistResponse(
                          TRUE, "", <<Tier("t1", FALSE), Tier("t2", TRUE)>>))

\* The steps of Discover itself.
DiscoverRuns ==
    \/ DiscoverEnter
    \/ EndpointEnter
    \/ EndpointRespond
    \/ EndpointRefresh
    \/ EndpointReload
    \/ EndpointRetryRespond
    \/ EndpointRead
    \/ Poll

\* Discover runs on: a call of the provider or of httpClient.Do returns, and
\* the sleep between two polls ends, whatever other goroutines do to the
\* provider meanwhile.
FairDiscover ==
    /\ InitOnboarding
    /\ [][NextDiscover]_vars
    /\ WF_vars(DiscoverRuns)

\* ------------------------------------------------------------ the server
\* Model ids, display names and paths are sequences of characters.
\* The byte of a character: Go compares strings byte by byte.
Ord(ch) ==
    CASE ch = "-" -> 45
      [] ch = "/" -> 47
      [] ch = "0" -> 48
      [] ch = "1" -> 49
      [] ch = "3" -> 51
      [] ch = "4" -> 52
      [] ch = "5" -> 53
      [] ch = "7" -> 55
      [] ch = "C" -> 67
      [] ch = "D" -> 68
      [] ch = "E" -> 69
      [] ch = "G" -> 71
      [] ch = "I" -> 73
      [] ch = "M" -> 77
      [] ch = "N" -> 78
      [] ch = "a" -> 97
      [] ch = "b" -> 98
      [] ch = "c" -> 99
      [] ch = "d" -> 100
      [] ch = "e" -> 101
      [] ch = "g" -> 103
      [] ch = "i" -> 105
      [] ch = "l" -> 108
      [] ch = "m" -> 109
      [] ch = "n" -> 110
      [] ch = "o" -> 111
      [] ch = "p" -> 112
      [] ch = "r" -> 114
      [] ch = "s" -> 115
      [] ch = "t" -> 116
      [] ch = "u" -> 117
      [] ch = "v" -> 118
      [] ch = "y" -> 121

\* a < b on strings.
RECURSIVE Less(_, _)
Less(a, b) ==
    IF b = <<>> THEN FALSE
    ELSE IF a = <<>> THEN TRUE
    ELSE IF Ord(Head(a)) # Ord(Head(b)) THEN Ord(Head(a)) < Ord(Head(b))
    ELSE Less(Tail(a), Tail(b))

\* strings.ToLower and strings.Contains on sequences of characters.
ToLowerChars(s) == [i \in DOMAIN s |-> ToLower(s[i])]
ContainsChars(s, substr) ==
    \E i \in 0..(Len(s) - Len(substr)) :
       SubSeq(s, i + 1, i + Len(substr)) = substr

\* strings.Trim(s, cut) for a one-character cut set.
RECURSIVE TrimLeft(_, _)
TrimLeft(s, cut) ==
    IF s # <<>> /\ Head(s) = cut THEN TrimLeft(Tail(s), cut) ELSE s
RECURSIVE TrimRight(_, _)
TrimRight(s, cut) ==
    IF s # <<>> /\ s[Len(s)] = cut
    THEN TrimRight(SubSeq(s, 1, Len(s) - 1), cut)
    ELSE s
Trim(s, cut) == TrimRight(TrimLeft(s, cut), cut)

\* strings.Split(s, sep) for a one-character separator: the pieces between
\* the separators, one piece for a string without separator.
RECURSIVE SplitFrom(_, _, _, _)
SplitFrom(s, sep, piece, pieces) ==
    IF s = <<>> THEN Append(pieces, piece)
    ELSE IF Head(s) = sep
    THEN SplitFrom(Tail(s), sep, <<>>, Append(pieces, piece))
    ELSE SplitFrom(Tail(s), sep, Append(piece, Head(s)), pieces)
Split(s, sep) == SplitFrom(s, sep, <<>>, <<>>)

Claude == <<"c", "l", "a", "u", "d", "e">>
Gemini == <<"g", "e", "m", "i", "n", "i">>

modelFamily(modelID) ==
    IF ContainsChars(ToLowerChars(modelID), Claude) THEN "claude"
    ELSE IF ContainsChars(ToLowerChars(modelID), Gemini) THEN "gemini"
    ELSE "unknown"

isSupportedModelExactCase(modelID) ==
    ContainsChars(modelID, Claude) \/ ContainsChars(modelID, Gemini)

isSupportedModel(modelID) ==
    modelFamily(modelID) = "claude" \/ modelFamily(modelID) = "gemini"

\* An entry of the list; the creation time is left out.
openAIModel(id, description) ==
    [id |-> id, object |-> "model", ownedBy |-> "anthropic",
     description |-> description]

\* The loop over data.Models, visiting the keys in this order.
RECURSIVE supportedModels(_, _)
supportedModels(order, data) ==
    IF order = <<>> THEN <<>>
    ELSE LET modelID == Head(order)
             displayName == data[modelID].displayName
         IN  (IF isSupportedModel(modelID)
              THEN <<openAIModel(modelID, IF displayName = <<>> THEN modelID
                                          ELSE displayName)>>
              ELSE <<>>)
             \o supportedModels(Tail(order), data)

\* sort.Slice(models, by ID): the ids of a map are distinct, so the sorted
\* slice is unique.
RECURSIVE insertByID(_, _)
insertByID(m, sorted) ==
    IF sorted = <<>> THEN <<m>>
    ELSE IF Less(m.id, Head(sorted).id) THEN <<m>> \o sorted
    ELSE <<Head(sorted)>> \o insertByID(m, Tail(sorted))
RECURSIVE sortByID(_)
sortByID(models) ==
    IF models = <<>> THEN <<>>
    ELSE insertByID(Head(models), sortByID(Tail(models)))

StatusNotFound == 404
StatusMethodNotAllowed == 405
StatusInternalServerError == 500
\* What the handler writes: the status, the form of the body (the list, one
\* model, an API error, plain text) and the models in it.
Response(status, form, data) ==
    [status |-> status, form |-> form, data |-> data]

\* modelsHandler: fetched is what FetchAvailableModels returned (Nil: an
\* error), order the order in which the map is iterated.
modelsHandler(method, path, fetched, order) ==
    IF method # "GET"
    THEN Response(StatusMethodNotAllowed, "text", <<>>)
    ELSE IF fetched = Nil
    THEN Response(StatusInternalServerError, "error", <<>>)
    ELSE
      LET models == sortByID(supportedModels(order, Deref(fetched)))
          pathParts == Split(Trim(path, "/"), "/")
      IN  IF Len(pathParts) > 2
          THEN IF \E i \in DOMAIN models : models[i].id = pathParts[3]
               THEN Response(StatusOK, "model",
                             <<models[CHOOSE i \in DOMAIN models :
                                        models[i].id = pathParts[3]]>>)
               ELSE Response(StatusNotFound, "text", <<>>)
          ELSE Response(StatusOK, "list", models)

\* The orders in which a map with these keys can be iterated.
Orders(keys) ==
    {o \in [1..Cardinality(keys) -> keys] :
       \A i, j \in DOMAIN o : i # j => o[i] # o[j]}

\* A request reaches modelsHandler and is answered.
ModelsHandler ==
    /\ server.pc = "models"
    /\ \E order \in Orders(IF server.fetched = Nil THEN {}
                           ELSE DOMAIN Deref(server.fetched)) :
         server' = [server EXCEPT
                      !.pc = "done",
                      !.resp = Ptr(modelsHandler(server.method, server.path,
                                                 server.fetched, order))]
    /\ UNCHANGED <<cred, callVars, streamVars, request, prepLog, uuidCount,
                   messages, translated, schema, converted, sse, disc>>

normalizeModelNamePreviewless(model) ==
    LET kept(t) == t # "-preview" IN SelectSeq(model, kept)

normalizeModelName(model) == model

\* The model name the client gave is normalized, put into a request, and the
\* request is prepared for sending.
Normalize ==
    /\ server.pc = "normalize"
    /\ LET req == GenerateContentRequest(normalizeModelName(server.given), "",
                                         "", <<>>, Nil, <<>>, Nil)
           log == prepareAntigravityRequest(req, uuidCount)
       IN  /\ server' = [server EXCEPT !.pc = "done",
                                       !.sent = Ptr(log.final.model)]
           /\ uuidCount' = log.uuids
    /\ UNCHANGED <<cred, callVars, streamVars, request, prepLog, messages,
                   translated, schema, converted, sse, disc>>

\* The upstream models, the paths and the model names of the model.
MaxModels == 3
MaxNameParts == 3
ModelIDs ==
    {<<"l", "l", "a", "m", "a", "-", "7", "0", "b">>,
     <<"g", "e", "m", "i", "n", "i", "-", "3", "-", "p", "r", "o">>,
     <<"c", "l", "a", "u", "d", "e", "-", "s", "o", "n", "n", "e", "t", "-", "4", "-", "5">>,
     <<"C", "l", "a", "u", "d", "e", "-", "4">>,
     <<"G", "E", "M", "I", "N", "I">>,
     <<"m", "y", "-", "g", "e", "m", "i", "n", "i">>,
     <<"g", "e", "m", "i", "n">>}
ModelData(modelID) ==
    [displayName |-> IF modelID = <<"g", "e", "m", "i", "n", "i", "-", "3", "-", "p", "r", "o">>
                     THEN <<"D">> ELSE <<>>]
AvailableModels ==
    {[modelID \in ids |-> ModelData(modelID)] :
       ids \in {S \in SUBSET ModelIDs : Cardinality(S) <= MaxModels}}
Paths ==
    {<<"/", "v", "1", "/", "m", "o", "d", "e", "l", "s">>,
     <<"/", "v", "1", "/", "m", "o", "d", "e", "l", "s", "/">>,
     <<"/", "v", "1", "/", "m", "o", "d", "e", "l", "s", "/", "g", "e", "m", "i", "n", "i", "-", "3", "-", "p", "r", "o">>,
     <<"/", "v", "1", "/", "m", "o", "d", "e", "l", "s", "/", "l", "l", "a", "m", "a", "-", "7", "0", "b">>}
NameParts ==
    {"gemini", "Gemini", "-3-pro", "-preview", "-low", "claude", "unknown",
     "-model", "custom", "-variant", "-123"}
ModelNames == SeqsUpTo(NameParts, MaxNameParts)

\* A request for the models has arrived and FetchAvailableModels has
\* returned, or a client has named a model.
InitServer ==
    /\ ClientIdle
    /\ request = Nil
    /\ prepLog = <<>>
    /\ uuidCount = 0
    /\ messages = <<>>
    /\ translated = Nil
    /\ schema = Nil
    /\ converted = Nil
    /\ sse = <<>>
    /\ disc = DiscIdle
    /\ \/ \E method \in {"GET", "POST"}, path \in Paths,
             fetched \in {Nil} \cup {Ptr(data) : data \in AvailableModels} :
            server = [ServerIdle EXCEPT !.pc = "models", !.method = method,
                                        !.path = path, !.fetched = fetched]
       \/ \E name \in ModelNames :
            server = [ServerIdle EXCEPT !.pc = "normalize", !.given = name]

NextServer ==
    \/ ModelsHandler
    \/ Normalize

SpecServer == InitServer /\ [][NextServer]_vars

\* ================================================================= claims
\* Helpers over the observed steps of a call.
Is(t, i, ev) == t[i].ev = ev
IsAt(t, i, ev, e) == t[i].ev = ev /\ t[i].ep = e
\* t[i] is the first / a later response of its endpoint.
FirstResp(t, i) ==
    /\ Is(t, i, "resp")
    /\ \A h \in 1..(i - 1) : ~IsAt(t, h, "resp", t[i].ep)
LaterResp(t, i) ==
    /\ Is(t, i, "resp")
    /\ \E h \in 1..(i - 1) : IsAt(t, h, "resp", t[i].ep)
\* t[j] is the second request of its endpoint.
RetryReq(t, j) ==
    /\ Is(t, j, "req")
    /\ \E h \in 1..(j - 1) : IsAt(t, h, "req", t[j].ep)
Count(t, ev, e) == Cardinality({i \in DOMAIN t : IsAt(t, i, ev, e)})
ReqsInOrder(t) ==
    \A i \in DOMAIN t : \A j \in DOMAIN t :
        (i < j /\ Is(t, i, "req") /\ Is(t, j, "req")) => t[i].ep <= t[j].ep
EndpointIdx == 1..NumEndpoints

\* C1 (as stated): endpoints are contacted in the configured order, endpoint
\* k+1 only after the last response of endpoint k was a transport failure or
\* a non-200 status, and no request follows a 200 response.
C1_FailoverOnlyAfterTransportOrStatus ==
    \A c \in Calls :
        LET t == trace[c]
        IN  /\ ReqsInOrder(t)
            /\ \A j \in DOMAIN t :
                 (Is(t, j, "req") /\ t[j].ep > 1) =>
                    \E i \in 1..(j - 1) :
                        /\ IsAt(t, i, "resp", t[j].ep - 1)
                        /\ t[i].v # StatusOK
                        /\ \A h \in (i + 1)..j : ~IsAt(t, h, "resp", t[j].ep - 1)
            /\ \A i \in DOMAIN t : \A j \in DOMAIN t :
                 (i < j /\ Is(t, i, "resp") /\ t[i].v = StatusOK)
                    => ~Is(t, j, "req")

\* C1 (amended): endpoints are contacted in the configured order; endpoint
\* k+1 is contacted only after the attempt on endpoint k ended in an error
\* that was recorded as lastErr; after a 200 response no further endpoint is
\* contacted, except by a unary call that could not read that response's body.
C1_FailoverInOrder ==
    \A c \in Calls :
        LET t == trace[c]
        IN  /\ ReqsInOrder(t)
            /\ \A j \in DOMAIN t :
                 (Is(t, j, "req") /\ t[j].ep > 1) =>
                    /\ Len(recorded[c]) >= t[j].ep - 1
                    /\ recorded[c][t[j].ep - 1] # NoErr
                    /\ \A e \in 1..(t[j].ep - 1) :
                         \E i \in 1..(j - 1) : IsAt(t, i, "creds", e)
            /\ \A i \in DOMAIN t : \A j \in DOMAIN t :
                 (i < j /\ Is(t, i, "resp") /\ t[i].v = StatusOK /\ Is(t, j, "req"))
                    => /\ kind[c] \in UnaryKinds
                       /\ t[j].ep = t[i].ep + 1
                       /\ recorded[c][t[i].ep] = E("readBody")

\* A call that failed on the first endpoint and got its 200 from the second.
C1_Witness ==
    \E c \in Calls :
        /\ pc[c] = "done"
        /\ result[c].state = "ok"
        /\ \E i \in DOMAIN trace[c] : \E j \in DOMAIN trace[c] :
             /\ i < j
             /\ IsAt(trace[c], i, "resp", 1)
             /\ trace[c][i].v = TransportFailure
             /\ IsAt(trace[c], j, "resp", 2)
             /\ trace[c][j].v = StatusOK

\* C2: within one endpoint attempt a first response of 401 leads to one
\* RefreshToken call, then a re-read of the credentials, then one retry on the
\* same endpoint with the re-read token; any other first response leads to no
\* refresh and no retry; so at most two requests and one refresh per attempt.
C2_OneRefreshOneRetry ==
    \A c \in Calls : \A e \in EndpointIdx :
        LET t == trace[c]
        IN  /\ Count(t, "req", e) <= 2
            /\ Count(t, "refresh", e) <= 1
            /\ \A i \in DOMAIN t :
                 /\ (FirstResp(t, i) /\ t[i].v = StatusUnauthorized)
                       => (i < Len(t) /\ IsAt(t, i + 1, "refresh", t[i].ep))
                 /\ (FirstResp(t, i) /\ t[i].ep = e /\ t[i].v # StatusUnauthorized)
                       => (Count(t, "refresh", e) = 0 /\ Count(t, "req", e) = 1)
                 /\ Is(t, i, "refresh")
                       => (i > 1 /\ FirstResp(t, i - 1)
                           /\ t[i - 1].ep = t[i].ep
                           /\ t[i - 1].v = StatusUnauthorized)
                 /\ RetryReq(t, i)
                       => /\ i > 3
                          /\ IsAt(t, i - 1, "creds", t[i].ep)
                          /\ t[i - 1].v = t[i].v
                          /\ IsAt(t, i - 2, "refreshed", t[i].ep)
                          /\ t[i - 2].v = 1
                          /\ IsAt(t, i - 3, "refresh", t[i].ep)
                 /\ (Is(t, i, "refreshed") /\ t[i].v = 1 /\ i < Len(t))
                       => /\ IsAt(t, i + 1, "creds", t[i].ep)
                          /\ t[i + 1].v >= 0 =>
                                /\ i + 2 <= Len(t)
                                /\ IsAt(t, i + 2, "req", t[i].ep)
                                /\ t[i + 2].v = t[i + 1].v

\* A retry that carries another token than the first request of the attempt.
C2_Witness ==
    \E c \in Calls : \E i \in DOMAIN trace[c] : \E j \in DOMAIN trace[c] :
        /\ i < j
        /\ Is(trace[c], i, "req")
        /\ IsAt(trace[c], j, "req", trace[c][i].ep)
        /\ trace[c][i].v # trace[c][j].v
        /\ pc[c] = "done"

\* The attempt on an endpoint met a second 401, or its refresh failed, at t[i].
AuthFailed(t, i) ==
    \/ LaterResp(t, i) /\ t[i].v = StatusUnauthorized
    \/ Is(t, i, "refreshed") /\ t[i].v = 0

\* C3 (as stated): after a second 401 from an endpoint, or a failed refresh,
\* the call ends with an error: no later request, no later refresh.
C3_AuthFailureEndsCall ==
    \A c \in Calls : \A i \in DOMAIN trace[c] :
        AuthFailed(trace[c], i) =>
            /\ \A j \in (i + 1)..Len(trace[c]) :
                 trace[c][j].ev \notin {"req", "refresh"}
            /\ pc[c] = "done" => result[c].state = "error"

\* C3 (amended): a second 401 from an endpoint, or a failed refresh, ends the
\* attempt on that endpoint only: no further request or refresh is made for
\* that endpoint and the failure is recorded as lastErr; the call goes on to
\* the next endpoint, and ends with that error when there is none.
C3_AuthFailureEndsAttempt ==
    \A c \in Calls : \A i \in DOMAIN trace[c] :
        LET t == trace[c]
            e == t[i].ep
        IN  AuthFailed(t, i) =>
              /\ \A j \in (i + 1)..Len(t) :
                   t[j].ev \in {"req", "refresh", "resp", "creds"} => t[j].ep > e
              /\ Len(recorded[c]) >= e =>
                   IF Is(t, i, "refreshed")
                   THEN recorded[c][e] = E("refresh")
                   ELSE recorded[c][e] \in
                          {StatusError(kind[c], StatusUnauthorized, Endpoints[e]),
                           E("readBody"),
                           Err("streamRead", StatusUnauthorized, "")}
              /\ (pc[c] = "done" /\ e = NumEndpoints) =>
                   (result[c].state = "error" /\ result[c].err = recorded[c][e])
              /\ (pc[c] \in {"doRequest", "await", "retryAwait", "refreshing",
                             "reload"} /\ Len(recorded[c]) >= e)
                   => ep[c] > e

\* After a second 401 on the first endpoint the call refreshed again on the
\* second endpoint and succeeded there.
C3_Witness ==
    \E c \in Calls : \E i \in DOMAIN trace[c] : \E j \in DOMAIN trace[c] :
        /\ i < j
        /\ AuthFailed(trace[c], i)
        /\ Is(trace[c], i, "resp")
        /\ trace[c][i].ep = 1
        /\ IsAt(trace[c], j, "refresh", 2)
        /\ pc[c] = "done"
        /\ result[c].state = "ok"

Has200(t) == \E i \in DOMAIN t : Is(t, i, "resp") /\ t[i].v = StatusOK

\* C4 (as stated): a unary call returns an error only after every endpoint was
\* attempted, the error being the one recorded for the last endpoint; a 200
\* response from any endpoint makes the call succeed.
C4_ErrorOnlyAfterAllEndpoints ==
    \A c \in Calls :
        (kind[c] \in UnaryKinds /\ pc[c] = "done") =>
            /\ result[c].state = "error" =>
                 /\ Len(recorded[c]) = NumEndpoints
                 /\ result[c].err = recorded[c][NumEndpoints]
            /\ Has200(trace[c]) => result[c].state = "ok"

\* C4 (amended): a unary call returns an error either after every endpoint was
\* attempted, the error being the one recorded for the last endpoint, or at
\* once when the body of a 200 response does not decode; a 200 response makes
\* the call succeed when its body is read and decodes, and is a failed attempt
\* when its body cannot be read.
C4_UnaryOutcome ==
    \A c \in Calls :
        LET t == trace[c]
        IN  (kind[c] \in UnaryKinds /\ pc[c] = "done") =>
              /\ (result[c].state = "error" /\ result[c].err # E("unmarshal")) =>
                   /\ Len(recorded[c]) = NumEndpoints
                   /\ result[c].err = recorded[c][NumEndpoints]
                   /\ \A e \in EndpointIdx : Count(t, "creds", e) >= 1
              /\ (result[c].state = "ok" \/ result[c].err = E("unmarshal")) =>
                   /\ Len(t) > 0
                   /\ Is(t, Len(t), "resp")
                   /\ t[Len(t)].v = StatusOK
                   /\ Len(recorded[c]) = t[Len(t)].ep - 1
              /\ \A i \in DOMAIN t :
                   (Is(t, i, "resp") /\ t[i].v = StatusOK /\ i < Len(t)) =>
                       recorded[c][t[i].ep] = E("readBody")

\* A unary call that failed on every endpoint, with different errors.
C4_Witness ==
    \E c \in Calls :
        /\ kind[c] \in UnaryKinds
        /\ pc[c] = "done"
        /\ result[c].state = "error"
        /\ Len(recorded[c]) = NumEndpoints
        /\ recorded[c][1] # recorded[c][NumEndpoints]

\* C5: no request is sent with a blank bearer token, and a blank token read
\* from the provider ends the attempt without a request.
C5_NoBlankBearer ==
    \A c \in Calls : \A i \in DOMAIN trace[c] :
        /\ Is(trace[c], i, "req") => trace[c][i].v # BlankToken
        /\ (Is(trace[c], i, "creds") /\ trace[c][i].v = BlankToken /\ i < Len(trace[c]))
              => ~IsAt(trace[c], i + 1, "req", trace[c][i].ep)

\* C9: an outstanding request of a call whose context is cancelled ends with
\* a request error, whatever the method of the call.
C9_CancelAbortsOutstanding ==
    [][\A c \in Calls :
          (ctxDone[c] /\ pc[c] \in {"await", "retryAwait"} /\ pc'[c] # pc[c])
             => (pc'[c] = "returned" /\ ret'[c] = RetErr(E("execution")))]_vars

\* C10: concurrent calls refresh independently: every call whose first
\* response was 401 called RefreshToken itself, once, and its retry carries
\* the token it read after its own refresh returned.
C10_IndependentRefreshes ==
    /\ \A c \in Calls :
         LET t == trace[c]
         IN  /\ Cardinality({i \in DOMAIN t : Is(t, i, "refresh")}) <= 1
             /\ \A i \in DOMAIN t :
                  /\ (FirstResp(t, i) /\ t[i].v = StatusUnauthorized)
                        => (i < Len(t) /\ Is(t, i + 1, "refresh"))
                  /\ RetryReq(t, i)
                        => /\ i > 3
                           /\ Is(t, i - 1, "creds")
                           /\ t[i - 1].v = t[i].v
                           /\ Is(t, i - 2, "refreshed")
                           /\ t[i - 2].v = 1
                           /\ Is(t, i - 3, "refresh")
    /\ Cardinality({c \in Calls : \E i \in DOMAIN trace[c] : Is(trace[c], i, "refresh")})
         = Cardinality({c \in Calls : \E i \in DOMAIN trace[c] :
                           Is(trace[c], i, "resp") /\ trace[c][i].v = StatusUnauthorized
                           /\ FirstResp(trace[c], i)})

\* Every call is inside RefreshToken at the same time.
C10_Witness == \A c \in Calls : pc[c] = "refreshing"

\* The lines of data: split at LF, a CR before the LF or at the end dropped.
RECURSIVE SplitLines(_)
SplitLines(data) ==
    IF Len(data) = 0
    THEN <<>>
    ELSE LET i == IndexLF(data)
         IN  IF i = 0
             THEN <<dropCR(data)>>
             ELSE <<dropCR(SubSeq(data, 1, i - 1))>>
                    \o SplitLines(SubSeq(data, i + 1, Len(data)))

IsPrefix(s, t) == Len(s) <= Len(t) /\ s = SubSeq(t, 1, Len(s))

\* C6: the lines of the body reach the channel in upstream order, each once
\* and unchanged; the channel is closed only after the loop has ended, which
\* it does only once the body has ended, with every line read delivered to
\* the channel; the method's nil result stands. (A line that does not fit the
\* scanner's buffer ends the loop with bufio.ErrTooLong while the body is
\* open: that line and every line after it never reach the channel.)
C6_LinesInOrderOnce ==
    LET sent == delivered \o out
        held == IF spc = "send" THEN <<line>> ELSE <<>>
    IN  /\ sent \o held = SplitLines(SubSeq(body, 1, scanPos - 1))
        /\ IsPrefix(sent \o held, SplitLines(body))
        /\ spc \in {"closing", "closingBody", "done"} =>
             (bodyEnd # "open" /\ sent = SplitLines(body))
        /\ closed => spc \in {"closingBody", "done"}
        /\ (closed /\ Len(out) = 0) => delivered = SplitLines(body)
        /\ result[1] = Returned(NoErr)

\* C7: the client never closes the caller's channel.
C7_ClientNeverClosesChannel == ~closed

\* C8: once the context is cancelled the goroutine ends and the body is
\* closed, also when the consumer has stopped receiving. (The goroutine that
\* is blocked in `out <- scanner.Text()` on a full channel nobody receives
\* from has no step left: the send does not select on ctx.Done().)
C8_CancelStopsProducer == ctxDone[1] ~> (spc = "done" /\ bodyClosed)

\* ------------------------------------------------ response-ID reconciliation
\* The parts of contents in the order the loops visit them.
Flat(contents) ==
    LET pos == Positions(contents, 1)
    IN  [i \in DOMAIN pos |-> PartAt(contents, pos[i])]
IsCall(p) == p.functionCall # Nil
IsResponse(p) == p.functionCall = Nil /\ p.functionResponse # Nil
CallID(p) == Deref(p.functionCall).id
CallName(p) == Deref(p.functionCall).name
RespID(p) == Deref(p.functionResponse).id
RespName(p) == Deref(p.functionResponse).name
IDLess(p) == IsResponse(p) /\ TrimSpace(RespID(p)) = ""
CallsWithID(b, v) == {j \in DOMAIN b : IsCall(b[j]) /\ CallID(b[j]) = v}
DistinctCallIDs(b) ==
    \A j \in DOMAIN b : IsCall(b[j]) => CallsWithID(b, CallID(b[j])) = {j}
\* Call j is consumed before position i: a response between them carries its
\* ID, explicitly or by assignment.
Consumed(b, a, j, i) ==
    \E k \in (j + 1)..(i - 1) : IsResponse(b[k]) /\ RespID(a[k]) = CallID(b[j])
Unconsumed(b, a, i, name) ==
    {j \in 1..(i - 1) : /\ IsCall(b[j])
                        /\ TrimSpace(CallName(b[j])) = name
                        /\ ~Consumed(b, a, j, i)}
Min(S) == CHOOSE x \in S : \A y \in S : x <= y
\* The contents before and after ensureFunctionResponseIDs in preparation k.
Before(k) == Flat(prepLog[k].called.contents)
After(k) == Flat(prepLog[k].final.contents)

\* C11: an ID-less functionResponse whose name has an unconsumed earlier
\* functionCall of that name gets the ID of the oldest such call.
C11_PerNameFIFO ==
    \A k \in DOMAIN prepLog :
      LET b == Before(k)
          a == After(k)
      IN  DistinctCallIDs(b) =>
            \A i \in DOMAIN b :
              (IDLess(b[i]) /\ TrimSpace(RespName(b[i])) # "") =>
                LET u == Unconsumed(b, a, i, TrimSpace(RespName(b[i])))
                IN  u # {} => RespID(a[i]) = CallID(b[Min(u)])

\* C12: no call ID is assigned to more ID-less functionResponses than there
\* are functionCalls carrying it.
C12_AssignedAtMostOnce ==
    \A k \in DOMAIN prepLog :
      LET b == Before(k)
          a == After(k)
      IN  \A j \in DOMAIN b :
            IsCall(b[j]) =>
              Cardinality({i \in DOMAIN b :
                             IDLess(b[i]) /\ RespID(a[i]) = CallID(b[j])})
                <= Cardinality(CallsWithID(b, CallID(b[j])))

\* C13: an ID-less functionResponse is never assigned the ID of a call that
\* an earlier functionResponse, placed after that call, carried explicitly.
C13_ExplicitIDConsumed ==
    \A k \in DOMAIN prepLog :
      LET b == Before(k)
          a == After(k)
      IN  \A j, e, i \in DOMAIN b :
            (/\ j < e /\ e < i
             /\ IsCall(b[j]) /\ CallsWithID(b, CallID(b[j])) = {j}
             /\ IsResponse(b[e]) /\ TrimSpace(RespID(b[e])) # ""
             /\ RespID(b[e]) = CallID(b[j])
             /\ IDLess(b[i]))
            => RespID(a[i]) # RespID(b[e])

\* ------------------------------------------------------ functionCall IDs
\* The contents after sanitization and at the end of preparation k: the
\* statements between them keep every part in its place.
Sanitized(k) == Flat(prepLog[k].sanitized.contents)
\* The identifiers generated for functionCalls in preparation k.
GeneratedIDs(k) ==
    {"toolu_" \o UUID(n) :
       n \in (prepLog[k].uuidsBefore + 1)..prepLog[k].uuids}
\* The IDs a part carries.
IDsOf(p) ==
    (IF p.functionCall # Nil THEN {CallID(p)} ELSE {})
    \cup (IF p.functionResponse # Nil THEN {Deref(p.functionResponse).id}
          ELSE {})

\* C14: after preparation every functionCall has a non-blank id; an id that
\* was present is unchanged, and a blank one is replaced by a generated
\* toolu_ identifier that no other functionCall has and that the request did
\* not contain.
C14_CallIDsFilled ==
    \A k \in DOMAIN prepLog :
      LET s == Sanitized(k)
          a == After(k)
      IN  /\ DOMAIN a = DOMAIN s
          /\ \A i \in DOMAIN s :
               s[i].functionCall # Nil =>
                 /\ a[i].functionCall # Nil
                 /\ TrimSpace(CallID(a[i])) # ""
                 /\ TrimSpace(CallID(s[i])) # "" => CallID(a[i]) = CallID(s[i])
                 /\ TrimSpace(CallID(s[i])) = "" =>
                      /\ CallID(a[i]) \in GeneratedIDs(k)
                      /\ \A j \in DOMAIN a \ {i} :
                           a[j].functionCall # Nil =>
                             CallID(a[j]) # CallID(a[i])
                      /\ \A j \in DOMAIN s : CallID(a[i]) \notin IDsOf(s[j])

\* A request with a kept ID, an empty ID and a whitespace-only ID has been
\* prepared.
C14_Witness ==
    \E k \in DOMAIN prepLog :
      \E i, j, w \in DOMAIN Sanitized(k) :
        LET s == Sanitized(k)
        IN  /\ IsCall(s[i]) /\ CallID(s[i]) = "1"
            /\ IsCall(s[j]) /\ CallID(s[j]) = ""
            /\ IsCall(s[w]) /\ CallID(s[w]) = " "

\* --------------------------------------------------- tool declarations
\* C15: after preparation every function declaration of every tool has a
\* parameter schema: {type: OBJECT} where the request had none, the request's
\* own schema otherwise; nothing else of the tools changes.
C15_ParametersNeverNil ==
    \A k \in DOMAIN prepLog :
      LET before == prepLog[k].input.tools
          after == prepLog[k].final.tools
      IN  /\ DOMAIN after = DOMAIN before
          /\ \A t \in DOMAIN before :
               LET db == before[t].functionDeclarations
                   da == after[t].functionDeclarations
               IN  /\ DOMAIN da = DOMAIN db
                   /\ \A f \in DOMAIN db :
                        /\ da[f].parameters # Nil
                        /\ da[f].name = db[f].name
                        /\ db[f].parameters = Nil =>
                             Deref(da[f].parameters) = [type |-> "OBJECT"]
                        /\ db[f].parameters # Nil =>
                             da[f].parameters = db[f].parameters

\* A tool with a declaration without parameters and one with a schema of its
\* own has been prepared.
C15_Witness ==
    \E k \in DOMAIN prepLog :
      \E t \in DOMAIN prepLog[k].input.tools :
        LET db == prepLog[k].input.tools[t].functionDeclarations
        IN  \E f, g \in DOMAIN db :
              /\ db[f].parameters = Nil
              /\ db[g].parameters = Ptr([type |-> "STRING"])

\* ------------------------------------------------------------ sanitization
KeptPart(p) ==
    p.text # "" \/ p.functionCall # Nil \/ p.functionResponse # Nil
HasParts(content) == Len(content.parts) > 0
\* The contents with every part that is not kept removed, and then every
\* content without parts removed.
Pruned(contents) ==
    SelectSeq([i \in DOMAIN contents |->
                 [contents[i] EXCEPT !.parts = SelectSeq(@, KeptPart)]],
              HasParts)

\* C16: sanitization removes exactly the parts with empty text and no
\* function payload, then exactly the contents left without parts, and keeps
\* the rest unmodified and in order.
C16_SanitizeExact ==
    \A k \in DOMAIN prepLog :
      prepLog[k].sanitized.contents = Pruned(prepLog[k].input.contents)

\* Prepared: a content whose only part is a functionCall with blank text,
\* which stays, and a content whose only part is blank text, which goes.
C16_Witness ==
    \E k \in DOMAIN prepLog :
      LET c == prepLog[k].input.contents
      IN  \E i, j \in DOMAIN c :
            /\ Len(c[i].parts) = 1 /\ c[i].parts[1].functionCall # Nil
            /\ c[i].parts[1].text = ""
            /\ c[j].parts = <<TextPart("")>>
            /\ Len(c) = 2
            /\ prepLog[k].sanitized.contents = <<c[i]>>

\* ------------------------------------------------------ system instruction
HasText(p) == p.text # ""
CallerSystemParts(k) ==
    IF prepLog[k].input.systemInstruction = Nil THEN <<>>
    ELSE Deref(prepLog[k].input.systemInstruction).parts

\* C18: the prepared system instruction has role user; its parts are the
\* preamble, the preamble in the ignore marker, and then one text-only part
\* for each of the caller's parts with non-empty text, in order.
C18_SystemInstructionSynthesized ==
    \A k \in DOMAIN prepLog :
      LET kept == SelectSeq(CallerSystemParts(k), HasText)
          sys == prepLog[k].final.systemInstruction
      IN  /\ sys # Nil
          /\ Deref(sys).role = "user"
          /\ Len(Deref(sys).parts) = 2 + Len(kept)
          /\ Deref(sys).parts[1] = TextPart(SystemInstructionText)
          /\ Deref(sys).parts[2] =
               TextPart("Please ignore the following [ignore]"
                        \o SystemInstructionText \o "[/ignore]")
          /\ \A i \in DOMAIN kept :
               Deref(sys).parts[2 + i] = TextPart(kept[i].text)

\* Prepared: a caller's system instruction of another role with a text part
\* and a part that has no text.
C18_Witness ==
    \E k \in DOMAIN prepLog :
      /\ prepLog[k].input.systemInstruction # Nil
      /\ Deref(prepLog[k].input.systemInstruction).role = "system"
      /\ \E i, j \in DOMAIN CallerSystemParts(k) :
           /\ HasText(CallerSystemParts(k)[i])
           /\ ~HasText(CallerSystemParts(k)[j])
           /\ CallerSystemParts(k)[j].functionCall # Nil

\* ---------------------------------------------------------- thinking preset
PresetApplies(model) ==
    /\ Contains(ToLowerName(model), "gemini")
    /\ Contains(ToLowerName(model), "-low")
       \/ Contains(ToLowerName(model), "-high")
ThinkingOf(req) == Deref(Deref(req.generationConfig).thinkingConfig)

\* C19: for a gemini model with -low or -high in its name the prepared
\* request has thinkingLevel low or high, as the name says, and no
\* thinkingBudget; for any other model the generation config is the caller's.
C19_ThinkingPreset ==
    \A k \in DOMAIN prepLog :
      LET in == prepLog[k].input
          final == prepLog[k].final
          lower == ToLowerName(in.model)
      IN  IF PresetApplies(in.model)
          THEN /\ final.generationConfig # Nil
               /\ Deref(final.generationConfig).thinkingConfig # Nil
               /\ ThinkingOf(final).thinkingLevel \in
                    {l \in {"low", "high"} : Contains(lower, "-" \o l)}
               /\ ThinkingOf(final).thinkingBudget = Nil
          ELSE final.generationConfig = in.generationConfig

\* Prepared: a gemini -high model whose caller set a thinkingBudget.
C19_Witness ==
    \E k \in DOMAIN prepLog :
      LET in == prepLog[k].input
      IN  /\ PresetApplies(in.model)
          /\ in.generationConfig # Nil
          /\ Deref(in.generationConfig).thinkingConfig # Nil
          /\ ThinkingOf(in).thinkingBudget # Nil
          /\ ThinkingOf(prepLog[k].final).thinkingLevel = "high"

\* ----------------------------------------------------------- session ids
\* The contents whose role is user and that have text.
UserTextContents(contents) ==
    {i \in DOMAIN contents :
       /\ ToLower(contents[i].role) = "user"
       /\ \E j \in DOMAIN contents[i].parts : contents[i].parts[j].text # ""}
HasUserText(k) == UserTextContents(prepLog[k].input.contents) # {}
\* The texts of the first user content that has text.
FirstUserText(k) ==
    LET contents == prepLog[k].input.contents
        first == contents[Min(UserTextContents(contents))]
    IN  SelectSeq([j \in DOMAIN first.parts |-> first.parts[j].text],
                  LAMBDA t : t # "")
Derived(k) == prepLog[k].input.sessionID = ""

\* C17: two prepared requests without a session id of their own get the same
\* session id when their first user text is the same, whatever else they
\* hold, and different session ids when neither has user text.
C17_SessionIDDeterministic ==
    \A j, k \in DOMAIN prepLog :
      (j # k /\ Derived(j) /\ Derived(k)) =>
        /\ (HasUserText(j) /\ HasUserText(k)
            /\ FirstUserText(j) = FirstUserText(k))
           => prepLog[j].final.sessionID = prepLog[k].final.sessionID
        /\ (~HasUserText(j) /\ ~HasUserText(k))
           => prepLog[j].final.sessionID # prepLog[k].final.sessionID

\* Prepared: two requests with the same first user text that differ in
\* model, request id, tools, system instruction and later contents.
C17_Witness ==
    /\ Len(prepLog) = 2
    /\ Derived(1) /\ Derived(2)
    /\ HasUserText(1) /\ HasUserText(2)
    /\ FirstUserText(1) = FirstUserText(2)
    /\ prepLog[1].input.model # prepLog[2].input.model
    /\ prepLog[1].input.requestID # prepLog[2].input.requestID
    /\ prepLog[1].input.tools # prepLog[2].input.tools
    /\ Len(prepLog[1].input.contents) # Len(prepLog[2].input.contents)

\* ------------------------------------------------------ tool results last
Translation == Deref(translated)
\* Message m has the tool role, as the deferral tests it.
ToolRole(m) == ToLower(messages[m].role) = "tool"
\* The contents that hold a part of a tool-role message.
ToolContents ==
    {i \in DOMAIN Translation.origin :
       \E p \in DOMAIN Translation.origin[i] : ToolRole(Translation.origin[i][p])}

\* C20: in translated contents everything that comes from tool-role messages
\* is in the last content, whose role is user and which holds the tool
\* results in message order, one functionResponse for every tool message
\* with content; each content before it comes from one other message, and
\* these contents are in message order.
C20_ToolResultsLast ==
    (translated # Nil /\ Translation.err = "") =>
      LET c == Translation.contents
          o == Translation.origin
          last == Len(c)
      IN  /\ ToolContents \subseteq {last}
          /\ ToolContents # {} =>
               /\ c[last].role = "user"
               /\ \A p \in DOMAIN o[last] : ToolRole(o[last][p])
               /\ \A p, q \in DOMAIN o[last] : p < q => o[last][p] <= o[last][q]
          /\ \A m \in DOMAIN messages :
               (messages[m].role = "tool" /\ messages[m].content.kind # "nil")
               => \E p \in DOMAIN o[last] :
                    /\ o[last][p] = m
                    /\ c[last].parts[p].functionResponse # Nil
                    /\ \A q \in DOMAIN o[last] : o[last][q] = m => q = p
          /\ \A i \in DOMAIN c \ ToolContents :
               /\ \A p \in DOMAIN o[i] : o[i][p] = o[i][1]
               /\ messages[o[i][1]].role # "system"
               /\ \A p \in DOMAIN c[i].parts :
                    c[i].parts[p].functionResponse = Nil
          /\ \A i, j \in DOMAIN c \ ToolContents : i < j => o[i][1] < o[j][1]

\* Translated: a tool result between two other turns, and a second tool
\* result after them.
C20_Witness ==
    /\ translated # Nil
    /\ Translation.err = ""
    /\ \E m1, m2, m3, m4 \in DOMAIN messages :
         /\ m1 < m2 /\ m2 < m3 /\ m3 < m4
         /\ messages[m1].role = "assistant"
         /\ messages[m2].role = "tool" /\ messages[m2].content.kind # "nil"
         /\ messages[m3].role = "user"
         /\ messages[m4].role = "tool" /\ messages[m4].content.kind # "nil"
         /\ messages[m4] # messages[m2]
    /\ Len(Translation.contents) = 3
    /\ Len(Translation.contents[3].parts) = 2

\* ------------------------------------------------- unnamed tool messages
\* The tool calls of the assistant messages before message m, as pairs of
\* message number and call number.
CallsBefore(m) ==
    {ak \in (1..(m - 1)) \X (1..MaxMessages) :
       /\ messages[ak[1]].role = "assistant"
       /\ ak[2] \in DOMAIN messages[ak[1]].toolCalls}
CallAt(ak) == messages[ak[1]].toolCalls[ak[2]]
\* The tool_call_id of message m is the ID of a named assistant tool call.
MatchesRecordedCall(m) ==
    /\ messages[m].toolCallID # ""
    /\ \E ak \in CallsBefore(Len(messages) + 1) :
         /\ CallAt(ak).id = messages[m].toolCallID
         /\ CallAt(ak).name # ""
\* Message m is a tool message with no discoverable function name.
Undiscoverable(m) ==
    /\ messages[m].role = "tool"
    /\ messages[m].name = ""
    /\ ~MatchesRecordedCall(m)

\* C21: translation fails with the missing-function-name error whenever a
\* tool-role message has neither a name nor a tool_call_id that matches a
\* recorded assistant tool call, whether its content is a string, an array
\* or absent.
C21_MissingNameFails ==
    translated # Nil =>
      ((\E m \in DOMAIN messages : Undiscoverable(m))
         => Translation.err = MissingFunctionName)

\* --------------------------------------------- call IDs of tool responses
\* The parts of the trailing content that come from tool messages without a
\* tool_call_id.
LastContent == Translation.contents[Len(Translation.contents)]
LastOrigin == Translation.origin[Len(Translation.origin)]
Backfilled ==
    IF Translation.contents = <<>> THEN {}
    ELSE {p \in DOMAIN LastOrigin :
            /\ messages[LastOrigin[p]].role = "tool"
            /\ TrimSpace(messages[LastOrigin[p]].toolCallID) = ""
            /\ IsResponse(LastContent.parts[p])}
\* The calls of a name made before message m.
NamedCallsBefore(m, name) == {ak \in CallsBefore(m) : CallAt(ak).name = name}

\* C22: two tool messages without a tool_call_id that have the same resolved
\* function name and come after two distinct calls of that name do not
\* receive the same call ID.
C22_BackfilledIDsDistinct ==
    (translated # Nil /\ Translation.err = "") =>
      \A p, q \in Backfilled :
        (/\ p < q
         /\ RespName(LastContent.parts[p]) = RespName(LastContent.parts[q])
         /\ Cardinality(NamedCallsBefore(LastOrigin[p],
                                         RespName(LastContent.parts[p]))) >= 2)
        => RespID(LastContent.parts[p]) # RespID(LastContent.parts[q])

\* ------------------------------------------------------ system messages
\* The non-empty texts of a message content.
RECURSIVE NonEmptyItemTexts(_)
NonEmptyItemTexts(items) ==
    IF items = <<>> THEN <<>>
    ELSE (IF Head(items).type = "text" /\ Head(items).text # ""
          THEN <<Head(items).text>> ELSE <<>>)
         \o NonEmptyItemTexts(Tail(items))
NonEmptyTexts(content) ==
    CASE content.kind = "string" ->
           IF content.text = "" THEN <<>> ELSE <<content.text>>
      [] content.kind = "array" -> NonEmptyItemTexts(content.items)
      [] OTHER -> <<>>
\* The non-empty texts of the system messages from message m on.
RECURSIVE SystemTextsFrom(_)
SystemTextsFrom(m) ==
    IF m > Len(messages) THEN <<>>
    ELSE (IF messages[m].role = "system"
          THEN NonEmptyTexts(messages[m].content) ELSE <<>>)
         \o SystemTextsFrom(m + 1)
SystemMessages == {m \in DOMAIN messages : messages[m].role = "system"}

\* C23: no part of the translated contents comes from a system message, and
\* the parts of the system instruction are exactly the non-empty texts of
\* the system messages in message order; there is a system instruction
\* exactly when there is a system message.
C23_SystemInstructionExact ==
    (translated # Nil /\ Translation.err = "") =>
      /\ \A i \in DOMAIN Translation.origin :
           \A p \in DOMAIN Translation.origin[i] :
             Translation.origin[i][p] \notin SystemMessages
      /\ SystemMessages = {} <=> Translation.systemInstruction = Nil
      /\ SystemMessages # {} =>
           LET si == Deref(Translation.systemInstruction)
           IN  /\ si.role = "system"
               /\ si.parts = [p \in DOMAIN SystemTextsFrom(1) |->
                                TextPart(SystemTextsFrom(1)[p])]

\* Translated: two different system messages with another turn between
\* them, each adding a part to the system instruction.
C23_Witness ==
    /\ translated # Nil
    /\ Translation.err = ""
    /\ \E m1, m2, m3 \in DOMAIN messages :
         /\ m1 < m2 /\ m2 < m3
         /\ m1 \in SystemMessages /\ m3 \in SystemMessages
         /\ messages[m1] # messages[m3]
         /\ messages[m2].role = "user"
    /\ Len(Deref(Translation.systemInstruction).parts) = 2
    /\ Len(Translation.contents) = 1

\* ----------------------------------------------------- schema conversion
\* The schema as it was handed to ConvertSchema, and what the call returned.
Given == Deref(converted).argument
SchemaIn == Deref(Given)
SchemaOut == Deref(converted).result
ListOf(l) == IF l = Nil THEN <<>> ELSE Deref(l)
Elements(l) == {ListOf(l)[i] : i \in DOMAIN ListOf(l)}
OfTypeArray(b) == b # Nil /\ Deref(b).type = Ptr(JStr("array"))
\* The sub-schemas of type array that anyOf and oneOf list.
ArrayBranches(s) ==
    {b \in Elements(s.anyOf) \cup Elements(s.oneOf) : OfTypeArray(b)}
\* Two conversion results agree in everything but the description.
SameButDescription(a, b) ==
    /\ a # Nil
    /\ b # Nil
    /\ [Deref(a) EXCEPT !.description = ""]
         = [Deref(b) EXCEPT !.description = ""]

\* C24: when anyOf or oneOf, or both, list a sub-schema of type array, the
\* result is the conversion of an array sub-schema (the description apart),
\* whatever its position.
C24_ArrayBranchSelected ==
    (converted # Nil /\ Given # Nil /\ ArrayBranches(SchemaIn) # {}) =>
      \E b \in ArrayBranches(SchemaIn) :
        SameButDescription(SchemaOut, ConvertSchema(b))

\* The array sub-schema ConvertSchema selects, Nil when it selects none.
SelectedBranch ==
    LET l == ListOf(subSchemas(SchemaIn))
    IN  IF firstArray(l, 1) = 0 THEN Nil ELSE l[firstArray(l, 1)]

\* C25: when an array sub-schema is selected, the result has the
\* sub-schema's own description if it has one, and the parent's description
\* otherwise.
C25_BranchDescriptionKept ==
    (converted # Nil /\ Given # Nil /\ SelectedBranch # Nil) =>
      Deref(SchemaOut).description =
        IF Deref(SelectedBranch).description # Nil
        THEN asString(Deref(SelectedBranch).description)
        ELSE asString(SchemaIn.description)

\* The anyOf and oneOf lists that are present.
Unions(s) == {l \in {s.anyOf, s.oneOf} : l # Nil}

\* C26: when anyOf or oneOf is present and no listed sub-schema is of type
\* array, the result is the conversion of the first sub-schema of a list.
C26_FirstBranchSelected ==
    (/\ converted # Nil
     /\ Given # Nil
     /\ Unions(SchemaIn) # {}
     /\ ArrayBranches(SchemaIn) = {}
     /\ \A l \in Unions(SchemaIn) : Deref(l) # <<>> /\ Deref(l)[1] # Nil)
    => \E l \in Unions(SchemaIn) : SchemaOut = ConvertSchema(Deref(l)[1])

\* The keys of a properties map, and those whose value is an object.
Keys(props) == IF props = Nil THEN {} ELSE DOMAIN Deref(props)
ObjectKeys(props) == {key \in Keys(props) : Deref(props)[key] # Nil}
Strings(list) ==
    LET IsStr(v) == v.kind = "string"
        kept == SelectSeq(ListOf(list), IsStr)
    IN  [i \in DOMAIN kept |-> kept[i].s]
\* A schema without anyOf and oneOf has been converted.
PlainConverted ==
    /\ converted # Nil
    /\ Given # Nil
    /\ Unions(SchemaIn) = {}
\* The result holds the type in capitals and the description when they are
\* strings, the string entries of required and enum, the converted items
\* and, for every key in keys, the converted property; it has no other field.
ConvertedWith(keys) ==
    /\ SchemaOut # Nil
    /\ DOMAIN Deref(SchemaOut) =
         {"type", "description", "properties", "items", "required", "enum"}
    /\ Deref(SchemaOut).type = ToUpper(asString(SchemaIn.type))
    /\ Deref(SchemaOut).description = asString(SchemaIn.description)
    /\ Deref(SchemaOut).required = Strings(SchemaIn.required)
    /\ Deref(SchemaOut).enum = Strings(SchemaIn.enum)
    /\ Deref(SchemaOut).items = ConvertSchema(SchemaIn.items)
    /\ SchemaIn.properties = Nil <=> Deref(SchemaOut).properties = Nil
    /\ SchemaIn.properties # Nil =>
         /\ DOMAIN Deref(Deref(SchemaOut).properties) = keys
         /\ \A key \in keys \cap ObjectKeys(SchemaIn.properties) :
              Deref(Deref(SchemaOut).properties)[key]
                = ConvertSchema(Deref(SchemaIn.properties)[key])

\* C27 as stated: a schema without anyOf and oneOf is converted field by
\* field with one entry for every properties key, and a nil schema gives nil.
C27_EveryPropertyConverted ==
    /\ (converted # Nil /\ Given = Nil) => SchemaOut = Nil
    /\ PlainConverted => ConvertedWith(Keys(SchemaIn.properties))

\* C27: a schema without anyOf and oneOf is converted field by field with
\* one entry for every properties key whose value is an object, and a nil
\* schema gives nil.
C27_ObjectPropertiesConverted ==
    /\ (converted # Nil /\ Given = Nil) => SchemaOut = Nil
    /\ PlainConverted => ConvertedWith(ObjectKeys(SchemaIn.properties))

\* Converted: an object schema whose first property is an object schema with
\* an unsupported keyword and a required entry that is no string, whose
\* second property is no object, and whose items hold an anyOf.
C27_Witness ==
    /\ PlainConverted
    /\ SchemaIn.properties = Ptr([key \in {"k1", "k2"} |->
                                    IF key = "k1" THEN Ptr(Inner) ELSE Nil])
    /\ SchemaIn.items = Ptr(Nested)
    /\ DOMAIN Deref(Deref(SchemaOut).properties) = {"k1"}
    /\ Deref(Deref(Deref(SchemaOut).properties)["k1"]).required = <<"a">>
    /\ Deref(Deref(SchemaOut).items).type = "ARRAY"

\* ---------------------------------------------------------- SSE transform
Transformed == Len(sse) >= 2
\* The top-level map of an object payload.
Fields(payload) == decode(payload).fields
\* The payload carries a response member whose value is an object.
Nests(payload) ==
    /\ payload.kind = "object"
    /\ "response" \in DOMAIN Fields(payload)
    /\ Fields(payload)["response"].kind = "object"
\* The top-level keys except response, overlaid with the nested keys.
Overlay(payload) ==
    LET top == Fields(payload)
        nested == top["response"].fields
    IN  [key \in (DOMAIN top \ {"response"}) \cup DOMAIN nested |->
           IF key \in DOMAIN nested THEN nested[key] ELSE top[key]]
\* A data line with a nested response becomes the data line of the overlay.
NestedMerged ==
    (sse[1].data /\ Nests(sse[1].payload)) =>
      /\ sse[2].data
      /\ sse[2].payload.kind = "object"
      /\ Fields(sse[2].payload) = Overlay(sse[1].payload)

\* C28 as stated: a line that does not start with "data: " or whose payload
\* is not a JSON object is returned unchanged, and a data line with a nested
\* response object becomes the data line of the overlay.
C28_UnchangedUnlessObject ==
    Transformed =>
      /\ (~sse[1].data \/ sse[1].payload.kind # "object") => sse[2] = sse[1]
      /\ NestedMerged

\* C28: a line that does not start with "data: " or whose payload is not
\* JSON, or is JSON other than an object or null, is returned unchanged; a
\* null payload is written back as null; a data line with a nested response
\* object becomes the data line of the overlay.
C28_UnchangedUnlessDecoded ==
    Transformed =>
      /\ (~sse[1].data \/ sse[1].payload.kind \in {"array", "invalid"})
           => sse[2] = sse[1]
      /\ (sse[1].data /\ sse[1].payload.kind = "null")
           => sse[2] = SSELine(TRUE, Text("null", 0, FALSE, <<>>))
      /\ NestedMerged

\* Transformed: the data line {a:1, response:{a:2, b:3}}, which became
\* {a:2, b:3}.
C28_Witness ==
    /\ Transformed
    /\ sse[1] = SSELine(TRUE,
                        Obj(<<Member("a", Num(1)),
                              Member("response",
                                     Obj(<<Member("a", Num(2)),
                                           Member("b", Num(3))>>, FALSE))>>,
                            FALSE))
    /\ sse[2] = SSELine(TRUE, Obj(<<Member("a", Num(2)),
                                    Member("b", Num(3))>>, FALSE))

\* C29: transforming the result of transforming a line gives the payload
\* that transforming the line once gives.
C29_Idempotent ==
    Len(sse) >= 3 => sse[3].payload = sse[2].payload

\* ------------------------------------------------------ project discovery
\* C30: with an override project id Discover makes no call of the provider
\* and no request, and returns the override as it is with no error, whether
\* or not there is a load response and whatever it holds.
C30_OverrideVerbatim ==
    disc.env # "" =>
      /\ disc.calls = 0
      /\ disc.trace = <<>>
      /\ disc.sent = <<>>
      /\ disc.pc \in {"discover", "done"}
      /\ disc.pc = "done" => disc.ret = Returns(disc.env, "")

\* Discover has returned an override that has blanks around it, with no
\* load response.
C30_Witness ==
    /\ disc.pc = "done"
    /\ disc.env = " e "
    /\ disc.load = Nil
    /\ disc.ret = Returns(" e ", "")

\* The tier onboarding asks for: the first default tier of the load
\* response if it has an ID, the free tier otherwise.
DefaultTiers == {i \in DOMAIN Deref(disc.load).allowedTiers :
                   Deref(disc.load).allowedTiers[i].isDefault}
ExpectedTier ==
    IF DefaultTiers = {} THEN "free-tier"
    ELSE LET first == CHOOSE i \in DefaultTiers : \A j \in DefaultTiers : i <= j
             id == Deref(disc.load).allowedTiers[first].id
         IN  IF id = "" THEN "free-tier" ELSE id
IncompleteError == "onboarding completed but no project ID found"

\* C31: every onboardUser request carries the same tier id and the
\* placeholder project id; there is one call for the start and one more for
\* every response that did not report done; at a response that reports done
\* no further call is made and Discover returns its project id, or the
\* onboarding-incomplete error when it has none.
C31_SameRequestUntilDone ==
    /\ \A i \in DOMAIN disc.sent :
         /\ disc.sent[i].method = "onboardUser"
         /\ disc.sent[i].tierId = ExpectedTier
         /\ disc.sent[i].cloudaicompanionProject = "default"
         /\ disc.sent[i] = disc.sent[1]
    /\ disc.calls > 0 =>
         disc.calls = IF disc.pc = "callEndpoint" THEN disc.polls
                      ELSE disc.polls + 1
    /\ (disc.lro # Nil /\ Deref(disc.lro).done) =>
         /\ disc.pc \in {"poll", "done"}
         /\ disc.pc = "done" =>
              disc.ret = IF Deref(disc.lro).id # ""
                         THEN Returns(Deref(disc.lro).id, "")
                         ELSE Returns("", IncompleteError)
    /\ (disc.lro # Nil /\ disc.pc = "done") => Deref(disc.lro).done

\* Discover has returned the project id of the operation after a response
\* that did not report done and a poll, with the default tier of the load
\* response in every request.
C31_Witness ==
    /\ disc.pc = "done"
    /\ disc.polls >= 1
    /\ disc.calls = disc.polls + 1
    /\ disc.ret = Returns("o", "")
    /\ Len(disc.sent) >= 2
    /\ disc.sent[1].tierId = "t2"

\* The response in hand reports done, or does not.
AtPoll == disc.pc = "poll"
DoneInHand == AtPoll /\ Deref(disc.lro).done
PendingInHand == AtPoll /\ ~Deref(disc.lro).done
CallErrors == {"failed to call onboardUser", "failed to poll onboardUser"}

\* C32: once onboarding has started Discover returns only on a response that
\* reports done or on a failed call; the step it takes on a response that
\* reports done is to return; the step it takes on a response that does not,
\* whatever the number of polls so far, is one more poll and one more call of
\* onboardUser; and it keeps taking steps, so a run either returns or is
\* still polling after any number of polls.
C32_PollsUntilDone ==
    /\ []((disc.pc = "done" /\ disc.calls > 0) =>
            \/ disc.lro # Nil /\ Deref(disc.lro).done
            \/ Deref(disc.ret).err \in CallErrors)
    /\ [][(DoneInHand /\ disc' # disc) => disc'.pc = "done"]_vars
    /\ [][(PendingInHand /\ disc' # disc) =>
            /\ disc.polls < MaxPolls
            /\ disc'.pc = "callEndpoint"
            /\ disc'.polls = disc.polls + 1]_vars
    /\ <>(disc.pc = "done" \/ (PendingInHand /\ disc.polls = MaxPolls))

\* After the largest number of polls of the model the response in hand
\* still does not report done, and no call has failed.
C32_Witness ==
    /\ PendingInHand
    /\ disc.polls = MaxPolls
    /\ disc.calls = MaxPolls + 1
    /\ disc.ret = Nil

\* What doRequest and the endpoint loop of an UpstreamClient call make of the
\* outcome that callEndpoint met on this endpoint: TRUE when the client goes
\* on to the next endpoint.
ClientContinues(cause, endpoint) ==
    LET GC(r, readOK, decodeOK) ==
            Handle("generateContent", endpoint, r, readOK, decodeOK).continue
    IN  CASE cause = "getCredentials" -> GC(RetErr(E("getCredentials")), TRUE, TRUE)
          [] cause = "execution" -> GC(RetErr(E("execution")), TRUE, TRUE)
          [] cause = "refresh" -> GC(RetErr(E("refresh")), TRUE, TRUE)
          [] cause = "reload" -> GC(RetErr(E("reload")), TRUE, TRUE)
          [] cause = "retry" -> GC(RetErr(E("execution")), TRUE, TRUE)
          [] cause = "readBody" -> GC(RetResp(StatusOK), FALSE, TRUE)
          [] cause = "status" ->
               \A st \in Statuses \ {StatusOK} : GC(RetResp(st), TRUE, TRUE)
          [] cause = "unmarshal" -> GC(RetResp(StatusOK), TRUE, FALSE)

\* callEndpoint has failed the call on an endpoint that is not the last one.
FailedBeforeLastEndpoint ==
    /\ disc.pc = "done"
    /\ disc.ret # Nil
    /\ Deref(disc.ret).err \in CallErrors
    /\ disc.dep < NumEndpoints

\* C33: callEndpoint chooses between the next endpoint and failing the call
\* as an UpstreamClient call does: when it fails the call on an endpoint that
\* is not the last one, the client would fail its call on that outcome too.
C33_SameFailoverChoice ==
    FailedBeforeLastEndpoint =>
        ~ClientContinues(disc.lastErr, Endpoints[disc.dep])

\* Discover has returned for a managed account and no override.
ManagedReturned ==
    /\ disc.pc = "done"
    /\ disc.ret # Nil
    /\ disc.env = ""
    /\ disc.load # Nil
    /\ Deref(disc.load).gcpManaged

\* An onboardUser request was submitted, and an id returned without an error
\* is the one of the completed operation in hand.
Onboarded ==
    /\ disc.sent # <<>>
    /\ Deref(disc.ret).err = "" =>
          /\ disc.lro # Nil
          /\ Deref(disc.lro).done
          /\ Deref(disc.ret).id = Deref(disc.lro).id

\* C39 as stated: without an override, Discover for a managed account
\* submits an onboardUser request and returns only the project id of the
\* completed operation.
C39_ManagedOnboards == ManagedReturned => Onboarded

\* C39: without an override, for a managed account whose load response
\* holds no companion project, Discover calls onboardUser, submits the
\* request unless the credentials cannot be read, and returns only the
\* project id of the completed operation.
C39_ManagedWithoutProjectOnboards ==
    (ManagedReturned /\ Deref(disc.load).companionProject = "") =>
        /\ disc.calls > 0
        /\ Onboarded \/ (disc.calls = 1 /\ disc.lastErr = "getCredentials")
        /\ Deref(disc.ret).err = "" =>
              /\ disc.lro # Nil
              /\ Deref(disc.lro).done
              /\ Deref(disc.ret).id = Deref(disc.lro).id
C39_Witness ==
    /\ ManagedReturned
    /\ Deref(disc.load).companionProject = ""
    /\ disc.polls > 0
    /\ Deref(disc.ret) = [id |-> "o", err |-> ""]

\* C40: a project id that Discover returns without an error is not empty.
C40_ReturnedIDNonEmpty ==
    (disc.pc = "done" /\ disc.ret # Nil /\ Deref(disc.ret).err = "") =>
        Deref(disc.ret).id # ""

\* ------------------------------------------- backfill before reconciliation
\* The call that the functionResponse at position i of b is matched to, 0 when
\* there is none. A response with an ID is matched to the oldest call with
\* that ID that no earlier response is matched to; a response without an ID to
\* the oldest such call of its name, or to the oldest such call when it has
\* no name or no such call has its name.
RECURSIVE MatchOf(_, _)
MatchOf(b, i) ==
    LET taken == {MatchOf(b, r) : r \in {r \in 1..(i - 1) : IsResponse(b[r])}}
        free == {j \in 1..(i - 1) : IsCall(b[j]) /\ j \notin taken}
        sameID == {j \in free : CallID(b[j]) = RespID(b[i])}
        named == {j \in free :
                    /\ TrimSpace(RespName(b[i])) # ""
                    /\ TrimSpace(CallName(b[j])) = TrimSpace(RespName(b[i]))}
    IN  IF ~IDLess(b[i])
        THEN IF sameID # {} THEN Min(sameID) ELSE 0
        ELSE IF named # {} THEN Min(named)
        ELSE IF free # {} THEN Min(free)
        ELSE 0
\* In preparation k the response at i arrived without an ID and is matched
\* to a call that arrived without one.
BlankPair(k, i) ==
    /\ IsResponse(Sanitized(k)[i])
    /\ IDLess(Sanitized(k)[i])
    /\ MatchOf(Before(k), i) > 0
    /\ TrimSpace(CallID(Sanitized(k)[MatchOf(Before(k), i)])) = ""

\* C36: a functionCall that arrived without an ID and the ID-less
\* functionResponse matched to it carry, after preparation, the same ID, which
\* is not blank and was generated in this preparation. (An ID that an earlier
\* response took from the global queue stays in the queue of its call's name:
\* a later response of that name is given it instead of the ID of its own
\* call.)
C36_BlankPairSharesFreshID ==
    \A k \in DOMAIN prepLog :
      \A i \in DOMAIN Sanitized(k) :
        BlankPair(k, i) =>
          LET a == After(k)
              j == MatchOf(Before(k), i)
          IN  /\ RespID(a[i]) = CallID(a[j])
              /\ TrimSpace(CallID(a[j])) # ""
              /\ CallID(a[j]) \in GeneratedIDs(k)

\* -------------------------------------------- the frame of reconciliation
\* The calls before position i that no response before i has consumed.
UnconsumedCalls(b, a, i) ==
    {j \in 1..(i - 1) : IsCall(b[j]) /\ ~Consumed(b, a, j, i)}

\* C38: ensureFunctionResponseIDs changes nothing but the ID of
\* functionResponses whose ID was blank; the ID written is that of an earlier
\* functionCall; an ID-less response with no unconsumed earlier call stays
\* as it was.
C38_ReconciliationFrame ==
    \A k \in DOMAIN prepLog :
      LET b == Before(k)
          a == After(k)
      IN  /\ DOMAIN a = DOMAIN b
          /\ \A i \in DOMAIN b :
               /\ ~IDLess(b[i]) => a[i] = b[i]
               /\ IDLess(b[i]) =>
                    /\ a[i] = [b[i] EXCEPT
                                 !.functionResponse[1].id = RespID(a[i])]
                    /\ \/ a[i] = b[i]
                       \/ \E j \in 1..(i - 1) :
                            IsCall(b[j]) /\ RespID(a[i]) = CallID(b[j])
                    /\ (DistinctCallIDs(b) /\ UnconsumedCalls(b, a, i) = {})
                         => a[i] = b[i]

\* ----------------------------------------- outcomes of StreamGenerateContent
\* Nothing was sent on the channel and it is open.
ChannelUntouched ==
    /\ out = <<>>
    /\ delivered = <<>>
    /\ ~closed

\* C37: StreamGenerateContent returns nil with the goroutine started in that
\* step, once and for all, or an error with no goroutine, nothing sent on the
\* channel and the channel open, for good.
C37_TwoOutcomes ==
    /\ [](result[1].state = "ok" => spc # "none")
    /\ [](result[1].state # "ok" => (spc = "none" /\ ChannelUntouched))
    /\ [][(spc = "none" /\ spc' # "none") =>
            (result[1].state = "pending" /\ result'[1].state = "ok")]_vars
    /\ [][spc # "none" => spc' # "none"]_vars
    /\ [][result[1].state = "error" => result'[1] = result[1]]_vars
\* Every endpoint has failed and StreamGenerateContent has returned the last
\* error.
C37_Witness ==
    /\ result[1].state = "error"
    /\ Len(recorded[1]) = NumEndpoints
    /\ spc = "none"

\* ------------------------------------------------------ the list of models
\* GET /v1/models was answered after the upstream models were fetched.
Listed ==
    /\ server.pc = "done"
    /\ server.method = "GET"
    /\ server.path = <<"/", "v", "1", "/", "m", "o", "d", "e", "l", "s">>
    /\ server.fetched # Nil
\* The id holds the word at some place, whatever the case of its letters.
HoldsWord(id, word) ==
    \E i \in 1..Len(id) :
       /\ i + Len(word) - 1 <= Len(id)
       /\ \A k \in 1..Len(word) : ToLower(id[i + k - 1]) = word[k]
\* a comes before b in the order of their bytes.
ComesBefore(a, b) ==
    \E k \in 1..(Len(b)) :
       /\ \A h \in 1..(k - 1) : h <= Len(a) /\ a[h] = b[h]
       /\ k > Len(a) \/ (k <= Len(a) /\ Ord(a[k]) < Ord(b[k]))

\* C34: the list holds exactly the upstream models whose id holds claude or
\* gemini in any case, each once, in ascending order of id, and the answer is
\* no error.
C34_SupportedModelsSorted ==
    Listed =>
      LET r == Deref(server.resp)
          upstream == DOMAIN Deref(server.fetched)
      IN  /\ r.status = StatusOK
          /\ r.form = "list"
          /\ {r.data[i].id : i \in DOMAIN r.data}
               = {id \in upstream : HoldsWord(id, Claude) \/ HoldsWord(id, Gemini)}
          /\ \A i, j \in DOMAIN r.data :
               i < j => ComesBefore(r.data[i].id, r.data[j].id)
\* Of three upstream models one is left out and the two others are listed
\* with the one in capitals first.
C34_Witness ==
    /\ Listed
    /\ DOMAIN Deref(server.fetched)
         = {<<"l", "l", "a", "m", "a", "-", "7", "0", "b">>,
            <<"c", "l", "a", "u", "d", "e", "-", "s", "o", "n", "n", "e", "t", "-", "4", "-", "5">>,
            <<"G", "E", "M", "I", "N", "I">>}
    /\ Len(Deref(server.resp).data) = 2
    /\ Deref(server.resp).data[1].id = <<"G", "E", "M", "I", "N", "I">>

\* C35: the model name of the request that is sent is the name the client
\* gave.
C35_ModelNameUnchanged ==
    (server.pc = "done" /\ server.sent # Nil) =>
        Deref(server.sent) = server.given
\* A custom variant and a preview model were named.
C35_Witness ==
    /\ server.pc = "done"
    /\ server.given = <<"custom", "-variant", "-preview">>
    /\ server.sent # Nil
====
